---- MODULE Spec2Model ----
(***************************************************************************)
(* The conversation state machine of the voice agent (ConversationFlow):   *)
(* the keyed store of conversation records, the field extractors, the      *)
(* provider directory and the step handlers driven by processMessage.      *)
(*                                                                         *)
(* Conventions.  A JavaScript null is the empty tuple Null and a non-null  *)
(* value v is the one-element tuple Some(v).  An utterance is a sentence;  *)
(* Tokens gives the words, numbers and dates in it.  String.includes and   *)
(* the regular expressions of the extractors are evaluated on these        *)
(* tokens (SubstringOf, kind).  A response field the code leaves out is    *)
(* FALSE (flags), Null (values) or the empty sequence (lists).  calls is   *)
(* the set of call identifiers the voice platform uses, and lastCall       *)
(* records the latest call of the interface: operation, call identifier    *)
(* and returned response.  now is the clock new Date() reads; pending      *)
(* holds the processMessage invocations that are suspended at an await.    *)
(*                                                                         *)
(* Spec runs every operation to completion before the next one starts,     *)
(* with the clock standing still.  SpecStore lets the clock advance        *)
(* between the operations of the store.  SpecAsync starts a processMessage *)
(* while others are suspended at their awaits.                             *)
(*                                                                         *)
(* The services beside the conversation have their own variables and       *)
(* specifications: VerificationService (SpecVerify), the write-behind      *)
(* interface of CacheService (SpecCache, SpecCacheFair) and the rateLimit  *)
(* middleware (SpecRate).  Each leaves the variables of the others alone.  *)
(***************************************************************************)
EXTENDS Integers, Sequences, FiniteSets, TLC

VARIABLES conversationStates, providerSchedules, calls, lastCall, now,
          pending,
          verificationAttempts, lastVerify, failedCalls,
          writeBehindQueue, batch, intakeq, accepted, syncFailures, attempted,
          requests, lastRequest, admitted

\* the state of VerificationService and the record of its calls
verifyVars == <<verificationAttempts, lastVerify, failedCalls>>

\* the state of CacheService, of the IntakeQ backend and of the operations
\* the write-behind interface accepted
cacheVars == <<writeBehindQueue, batch, intakeq, accepted, syncFailures,
               attempted>>

\* the state of one rateLimit middleware and the record of its requests
rateVars == <<requests, lastRequest, admitted>>

serviceVars == <<verifyVars, cacheVars, rateVars>>

vars == <<conversationStates, providerSchedules, calls, lastCall, now, pending,
          serviceVars>>

(***************************************************************************)
(* Bounds of the model.                                                    *)
(***************************************************************************)
\* history entries in the store when the platform uses one call identifier
MaxHistory == 18
\* history entries in the store when the platform uses several
MaxSharedHistory == 6
\* total number of turns that did not advance a conversation
MaxSlack == 1
\* ticks of the clock
MaxClock == 1
\* history entries in the store while the clock advances
MaxStoreHistory == 2
\* processMessage invocations suspended at the same time
MaxPending == 2
\* history entries in the store while invocations overlap
MaxAsyncHistory == 6

CallIds == {"call_001", "call_002"}

Null == <<>>
Some(v) == <<v>>

(***************************************************************************)
(* Utterances.                                                             *)
(***************************************************************************)
W(text) == [kind |-> "word", text |-> text, val |-> 0]
PhoneTok(text) == [kind |-> "phone", text |-> text, val |-> 0]
DateTok(text, day) == [kind |-> "date", text |-> text, val |-> day]
TimeTok(text) == [kind |-> "time", text |-> text, val |-> 0]

\* Dates are day numbers counted from the day of the call, 2026-11-01 (a
\* Sunday); DobDay is 1985-03-15 (a Friday), NextMonday is 2026-11-02.
Today == 0
DobDay == 0 - 15206
NextMonday == Today + 1

Utterances ==
  { "I want to schedule an appointment",
    "I need to change to Ava Suleiman",
    "No, cancel it",
    "Hello, how are you?",
    "My phone is 904-123-4567 and DOB is 03/15/1985",
    "I need a follow-up with Dr. Soto",
    "A comprehensive evaluation with charles_maddix",
    "On 2026-11-02 at 10:30",
    "Yes, I have Aetna",
    "I have unknown insurance",
    "At 13:15 please",
    "No, that is not correct" }

\* the sentences the extractors are applied to: those of the conversations
\* and further ones of the unit tests
Phrases ==
  Utterances \cup { "I need to reschedule my appointment",
                    "I want to cancel my appointment",
                    "I am not sure" }

Tokens(u) ==
  CASE u = "I want to schedule an appointment" ->
         {W("I"), W("want"), W("to"), W("schedule"), W("an"), W("appointment")}
    [] u = "I need to change to Ava Suleiman" ->
         {W("I"), W("need"), W("to"), W("change"), W("Ava Suleiman")}
    [] u = "No, cancel it" ->
         {W("No"), W("cancel"), W("it")}
    [] u = "Hello, how are you?" ->
         {W("Hello"), W("how"), W("are"), W("you")}
    [] u = "My phone is 904-123-4567 and DOB is 03/15/1985" ->
         {W("My"), W("phone"), W("is"), PhoneTok("904-123-4567"), W("and"),
          W("DOB"), DateTok("03/15/1985", DobDay)}
    [] u = "I need a follow-up with Dr. Soto" ->
         {W("I"), W("need"), W("a"), W("follow-up"), W("with"), W("Dr. Soto")}
    [] u = "A comprehensive evaluation with charles_maddix" ->
         {W("A"), W("comprehensive"), W("evaluation"), W("with"),
          W("charles_maddix")}
    [] u = "On 2026-11-02 at 10:30" ->
         {W("On"), DateTok("2026-11-02", NextMonday), W("at"), TimeTok("10:30")}
    [] u = "Yes, I have Aetna" ->
         {W("Yes"), W("I"), W("have"), W("Aetna")}
    [] u = "I have unknown insurance" ->
         {W("I"), W("have"), W("unknown"), W("insurance")}
    [] u = "At 13:15 please" ->
         {W("At"), TimeTok("13:15"), W("please")}
    [] u = "I need to reschedule my appointment" ->
         {W("I"), W("need"), W("to"), W("reschedule"), W("my"),
          W("appointment")}
    [] u = "I want to cancel my appointment" ->
         {W("I"), W("want"), W("to"), W("cancel"), W("my"), W("appointment")}
    [] u = "No, that is not correct" ->
         {W("No"), W("that"), W("is"), W("not"), W("correct")}
    [] u = "I am not sure" ->
         {W("I"), W("am"), W("not"), W("sure")}
    [] OTHER -> {}

\* String.prototype.toLowerCase on the words of the vocabulary
ToLower(w) ==
  CASE w = "I" -> "i"
    [] w = "A" -> "a"
    [] w = "No" -> "no"
    [] w = "On" -> "on"
    [] w = "At" -> "at"
    [] w = "My" -> "my"
    [] w = "Yes" -> "yes"
    [] w = "DOB" -> "dob"
    [] w = "Hello" -> "hello"
    [] w = "Aetna" -> "aetna"
    [] w = "Dr. Soto" -> "dr. soto"
    [] w = "Dr. Unknown" -> "dr. unknown"
    [] w = "Ava Suleiman" -> "ava suleiman"
    [] w = "Charles Maddix" -> "charles maddix"
    [] w = "Blue Cross Blue Shield" -> "blue cross blue shield"
    [] OTHER -> w

\* the keywords of the extractors that occur inside a longer lower-case word
ProperSubstrings ==
  { <<"schedule", "reschedule">>, <<"follow", "follow-up">>,
    <<"correct", "incorrect">>, <<"no", "not">>, <<"no", "unknown">>,
    <<"no", "dr. unknown">>, <<"no", "know">>, <<"right", "bright">> }

SubstringOf(k, w) == k = w \/ <<k, w>> \in ProperSubstrings

\* the lower-case words of each utterance, and its tokens (tabulated once)
LowerWords ==
  [u \in Phrases |->
     {ToLower(t.text) : t \in {x \in Tokens(u) : x.kind = "word"}}]

TokensOf == [u \in Phrases |-> Tokens(u)]

\* message.toLowerCase().includes(keyword)
includes(message, keyword) ==
  \E w \in LowerWords[message] : SubstringOf(keyword, w)

\* message.match(regex) for the phone, date and time expressions: the
\* first match, or Null
match(message, kind) ==
  IF \E t \in TokensOf[message] : t.kind = kind
  THEN Some(CHOOSE t \in TokensOf[message] : t.kind = kind)
  ELSE Null

(***************************************************************************)
(* Field extractors.                                                       *)
(***************************************************************************)
detectIntent(message) ==
  IF includes(message, "schedule") \/ includes(message, "book")
       \/ includes(message, "appointment")
  THEN "schedule"
  ELSE IF includes(message, "reschedule") \/ includes(message, "change")
  THEN "reschedule"
  ELSE IF includes(message, "cancel")
  THEN "cancel"
  ELSE "general"

extractVerificationData(message) ==
  [ phoneNumber |-> IF match(message, "phone") = Null THEN Null
                    ELSE Some(match(message, "phone")[1].text),
    dateOfBirth |-> IF match(message, "date") = Null THEN Null
                    ELSE Some(match(message, "date")[1].text) ]

detectAppointmentType(message) ==
  IF includes(message, "comprehensive") \/ includes(message, "evaluation")
  THEN Some("comprehensive_evaluation")
  ELSE IF includes(message, "follow") \/ includes(message, "follow-up")
  THEN Some("follow_up")
  ELSE IF includes(message, "ketamine")
  THEN Some("ketamine_consultation")
  ELSE Null

(***************************************************************************)
(* Provider directory.                                                     *)
(***************************************************************************)
ProviderIds == {"charles_maddix", "ava_suleiman", "dr_soto"}

Hours(sh, sm, eh, em) == [start |-> <<sh, sm>>, end |-> <<eh, em>>]

\* PROVIDER_SCHEDULES as documented; Null is a provider the object lacks
DocumentedSchedules ==
  [ charles_maddix |->
      Some([ name |-> "Charles Maddix",
             schedule |-> [ monday |-> Hours(10, 30, 18, 0),
                            tuesday |-> Hours(10, 30, 18, 0),
                            wednesday |-> Hours(10, 30, 18, 0),
                            thursday |-> Hours(10, 30, 18, 0) ] ]),
    ava_suleiman |->
      Some([ name |-> "Ava Suleiman",
             schedule |-> [ tuesday |-> Hours(10, 30, 18, 0) ] ]),
    dr_soto |->
      Some([ name |-> "Dr. Soto",
             schedule |-> [ monday |-> Hours(16, 0, 18, 0),
                            tuesday |-> Hours(16, 0, 18, 0),
                            wednesday |-> Hours(16, 0, 18, 0),
                            thursday |-> Hours(16, 0, 18, 0) ] ]) ]

\* PROVIDER_SCHEDULES unset: JSON.parse('{}')
DefaultSchedules == [p \in ProviderIds |-> Null]

lunchBreakStart == <<13, 0>>
lunchBreakEnd == <<14, 0>>

ProviderEntry(id, name) ==
  [id |-> id, name |-> name, schedule |-> providerSchedules[id][1].schedule]

\* reading .schedule of a provider the configuration lacks is a TypeError
getAvailableProvidersThrows(appointmentType) ==
  \/ providerSchedules["charles_maddix"] = Null
  \/ providerSchedules["ava_suleiman"] = Null
  \/ appointmentType = Some("follow_up") /\ providerSchedules["dr_soto"] = Null

getAvailableProviders(appointmentType) ==
  <<ProviderEntry("charles_maddix", "Charles Maddix"),
    ProviderEntry("ava_suleiman", "Ava Suleiman")>>
  \o (IF appointmentType = Some("follow_up")
      THEN <<ProviderEntry("dr_soto", "Dr. Soto")>>
      ELSE <<>>)

\* variant: the provider is looked up in the list of the follow-up type
detectProviderSelection_anyType(message, appointmentType) ==
  LET providers == getAvailableProviders(Some("follow_up"))
      named == { i \in 1..Len(providers) :
                   \/ includes(message, ToLower(providers[i].name))
                   \/ includes(message, ToLower(providers[i].id)) }
  IN IF named = {} THEN Null
     ELSE Some(providers[CHOOSE i \in named : \A j \in named : i <= j])

\* the first provider of the list named in the message, in list order
detectProviderSelection(message, appointmentType) ==
  LET providers == getAvailableProviders(appointmentType)
      named == { i \in 1..Len(providers) :
                   \/ includes(message, ToLower(providers[i].name))
                   \/ includes(message, ToLower(providers[i].id)) }
  IN IF named = {} THEN Null
     ELSE Some(providers[CHOOSE i \in named : \A j \in named : i <= j])

\* moment(date).format('dddd').toLowerCase()
DayName(date) ==
  <<"sunday", "monday", "tuesday", "wednesday", "thursday", "friday",
    "saturday">>[(date % 7) + 1]

getAvailableDates(provider) ==
  SelectSeq([i \in 1..30 |-> Today + i],
            LAMBDA date : DayName(date) \in DOMAIN provider.schedule)

detectDateSelection(message) ==
  IF match(message, "date") = Null THEN Null
  ELSE Some(match(message, "date")[1].val)

getAvailableTimes(provider, date) ==
  IF DayName(date) \notin DOMAIN provider.schedule THEN <<>>
  ELSE LET schedule == provider.schedule[DayName(date)]
           startHour == schedule.start[1]
           endHour == schedule.end[1]
           lunchStart == lunchBreakStart[1]
           lunchEnd == lunchBreakEnd[1]
           hours == SelectSeq([i \in 1..(endHour - startHour) |->
                                 startHour + i - 1],
                              LAMBDA hour :
                                ~(hour >= lunchStart /\ hour < lunchEnd))
       IN [k \in 1..(4 * Len(hours)) |->
             <<hours[((k - 1) \div 4) + 1], ((k - 1) % 4) * 15>>]

\* hour.toString().padStart(2, '0') + ':' + minute.toString().padStart(2, '0')
\* of a slot <<hour, minute>>
Pad2(n) ==
  <<"0", "1", "2", "3", "4", "5", "6", "7", "8", "9">>[(n \div 10) + 1]
  \o <<"0", "1", "2", "3", "4", "5", "6", "7", "8", "9">>[(n % 10) + 1]

timeString(slot) == Pad2(slot[1]) \o ":" \o Pad2(slot[2])

detectTimeSelection(message) ==
  IF match(message, "time") = Null THEN Null
  ELSE Some(match(message, "time")[1].text)

acceptedProviders ==
  <<"aetna", "blue cross blue shield", "cigna", "medicare", "tricare">>

extractInsuranceInfo(message) ==
  LET found == { i \in 1..Len(acceptedProviders) :
                   includes(message, acceptedProviders[i]) }
  IN [ provider |->
         IF found = {} THEN Null
         ELSE Some(acceptedProviders[CHOOSE i \in found :
                                       \A j \in found : i <= j]) ]

\* the argument is already lower case (it comes from extractInsuranceInfo)
isAcceptedInsurance(provider) ==
  \E i \in 1..Len(acceptedProviders) :
    SubstringOf(acceptedProviders[i], ToLower(provider))

detectConfirmation(message) ==
  IF includes(message, "yes") \/ includes(message, "correct")
       \/ includes(message, "right")
  THEN Some("yes")
  ELSE IF includes(message, "no") \/ includes(message, "incorrect")
            \/ includes(message, "wrong")
  THEN Some("no")
  ELSE Null

(***************************************************************************)
(* The conversation store.                                                 *)
(***************************************************************************)
Steps ==
  { "greeting", "verification", "appointment_type", "provider_selection",
    "date_selection", "time_selection", "insurance_verification",
    "confirmation", "completed", "modification", "verification_failed",
    "rescheduling", "cancellation", "error" }

\* the record initializeConversation builds
NewState(callId) ==
  [ callId |-> callId,
    step |-> "greeting",
    clientVerified |-> FALSE,
    clientInfo |-> Null,
    insuranceVerified |-> FALSE,
    insuranceInfo |-> Null,
    appointmentType |-> Null,
    preferredProvider |-> Null,
    preferredDate |-> Null,
    preferredTime |-> Null,
    availableSlots |-> <<>>,
    selectedSlot |-> Null,
    conversationHistory |-> <<>>,
    startTime |-> now,
    lastActivity |-> now ]

\* conversationStates.get(callId): Null for a call the map does not hold
getConversationState(callId) ==
  IF callId \in DOMAIN conversationStates
  THEN Some(conversationStates[callId])
  ELSE Null

\* Object.assign(state, updates) on the record of a call
updateConversationState(state, updates) ==
  [f \in DOMAIN state |->
     IF f = "lastActivity" THEN now
     ELSE IF f \in DOMAIN updates THEN updates[f] ELSE state[f]]

\* variant: unshift instead of push
addToHistory_unshift(state, role, content) ==
  [state EXCEPT !.conversationHistory =
     <<[role |-> role, content |-> content, timestamp |-> now]>> \o @]

\* conversationHistory.push({role, content, timestamp})
addToHistory(state, role, content) ==
  [state EXCEPT !.conversationHistory =
     Append(@, [role |-> role, content |-> content, timestamp |-> now])]

(***************************************************************************)
(* Responses.                                                              *)
(***************************************************************************)
Response(message, nextStep) ==
  [ message |-> message,
    nextStep |-> nextStep,
    requiresVerification |-> FALSE,
    requiresTransfer |-> FALSE,
    selfPayOption |-> FALSE,
    confirmationSent |-> FALSE,
    options |-> <<>>,
    clientInfo |-> Null,
    appointmentType |-> Null,
    providers |-> <<>>,
    provider |-> Null,
    availableDates |-> <<>>,
    date |-> Null,
    availableTimes |-> <<>>,
    selectedSlot |-> Null,
    insuranceInfo |-> Null,
    appointmentDetails |-> Null,
    appointmentId |-> Null,
    error |-> Null ]

getErrorResponse ==
  [Response("I'm having trouble processing your request", "error")
     EXCEPT !.requiresTransfer = TRUE]

\* what a handler leaves behind: the record, and the response it returned
\* or the fact that it threw
Returned(state, resp) == [state |-> state, threw |-> FALSE, response |-> resp]
Thrown(state) == [state |-> state, threw |-> TRUE, response |-> getErrorResponse]

\* array.slice(0, 5)
FirstFive(list) == SubSeq(list, 1, IF Len(list) < 5 THEN Len(list) ELSE 5)

Names(providers) == [i \in 1..Len(providers) |-> providers[i].name]

(***************************************************************************)
(* Step handlers.  The answer of a collaborator (identity verification,    *)
(* slot availability, insurance verification, appointment creation) is an  *)
(* argument of the handler that asks for it.                               *)
(***************************************************************************)
\* variant: a cancel request is answered but the step is not stored
handleGreeting_noCancel(state, userMessage) ==
  LET intent == detectIntent(userMessage)
  IN IF intent \in {"schedule", "reschedule"}
     THEN Returned(updateConversationState(state, [step |-> "verification"]),
                   [Response("I'd be happy to help you", "verification")
                      EXCEPT !.requiresVerification = TRUE])
     ELSE IF intent = "cancel"
     THEN Returned(state,
                   [Response("I can help you cancel", "verification")
                      EXCEPT !.requiresVerification = TRUE])
     ELSE Returned(state, Response("How can I help you today?", "greeting"))

\* variant: a scheduling request goes straight to the appointment type
handleGreeting_skip(state, userMessage) ==
  LET intent == detectIntent(userMessage)
  IN IF intent = "schedule"
     THEN Returned(updateConversationState(state, [step |-> "appointment_type"]),
                   Response("What type of appointment?", "appointment_type"))
     ELSE IF intent \in {"reschedule", "cancel"}
     THEN Returned(updateConversationState(state, [step |-> "verification"]),
                   [Response("I can help you", "verification")
                      EXCEPT !.requiresVerification = TRUE])
     ELSE Returned(state,
                   [Response("How can I help you today?", "greeting")
                      EXCEPT !.options = <<"Schedule appointment",
                                           "Reschedule appointment",
                                           "Cancel appointment">>])

handleGreeting(state, userMessage) ==
  LET intent == detectIntent(userMessage)
  IN IF intent = "schedule"
     THEN Returned(updateConversationState(state, [step |-> "verification"]),
                   [Response("I'd be happy to help you schedule", "verification")
                      EXCEPT !.requiresVerification = TRUE])
     ELSE IF intent = "reschedule"
     THEN Returned(updateConversationState(state, [step |-> "verification"]),
                   [Response("I can help you reschedule", "verification")
                      EXCEPT !.requiresVerification = TRUE])
     ELSE IF intent = "cancel"
     THEN Returned(updateConversationState(state, [step |-> "verification"]),
                   [Response("I can help you cancel", "verification")
                      EXCEPT !.requiresVerification = TRUE])
     ELSE Returned(state,
                   [Response("How can I help you today?", "greeting")
                      EXCEPT !.options = <<"Schedule appointment",
                                           "Reschedule appointment",
                                           "Cancel appointment">>])

\* the shipped simulateVerification answers verified for every input; the
\* handler also has a branch for the answer verified = false
simulateVerification(verificationData, verified) ==
  IF verified
  THEN [ verified |-> TRUE,
         clientInfo |-> Some([ id |-> "client_001",
                               name |-> "John Doe",
                               phone |-> verificationData.phoneNumber[1],
                               dateOfBirth |-> verificationData.dateOfBirth[1] ]) ]
  ELSE [ verified |-> FALSE, clientInfo |-> Null ]

\* variant: the step advances without clientVerified being set
handleVerification_noFlag(state, userMessage, verified) ==
  LET verificationData == extractVerificationData(userMessage)
  IN IF verificationData.phoneNumber = Null \/ verificationData.dateOfBirth = Null
     THEN Returned(state,
                   [Response("I need both your phone number and date of birth",
                             "verification")
                      EXCEPT !.requiresVerification = TRUE])
     ELSE IF verified
     THEN Returned(updateConversationState(state, [step |-> "appointment_type"]),
                   Response("I've verified your identity", "appointment_type"))
     ELSE Returned(state,
                   [Response("I couldn't verify your identity",
                             "verification_failed")
                      EXCEPT !.requiresTransfer = TRUE])

handleVerification(state, userMessage, verified) ==
  LET verificationData == extractVerificationData(userMessage)
  IN IF verificationData.phoneNumber = Null \/ verificationData.dateOfBirth = Null
     THEN Returned(state,
                   [Response("I need both your phone number and date of birth",
                             "verification")
                      EXCEPT !.requiresVerification = TRUE])
     ELSE LET verificationResult == simulateVerification(verificationData, verified)
          IN IF verificationResult.verified
             THEN Returned(
                    updateConversationState(state,
                      [ clientVerified |-> TRUE,
                        clientInfo |-> verificationResult.clientInfo,
                        step |-> "appointment_type" ]),
                    [Response("I've verified your identity", "appointment_type")
                       EXCEPT !.clientInfo = verificationResult.clientInfo,
                              !.options = <<"Comprehensive evaluation (60 minutes)",
                                            "Follow-up (15 minutes)",
                                            "Ketamine consultation (30 minutes)">>])
             ELSE Returned(state,
                    [Response("I couldn't verify your identity",
                              "verification_failed")
                       EXCEPT !.requiresTransfer = TRUE])

\* variant: an utterance without an appointment type books a follow-up
handleAppointmentType_default(state, userMessage) ==
  LET detected == detectAppointmentType(userMessage)
      appointmentType == IF detected = Null THEN Some("follow_up") ELSE detected
      updated == updateConversationState(state,
                   [ appointmentType |-> appointmentType,
                     step |-> "provider_selection" ])
  IN IF getAvailableProvidersThrows(appointmentType)
     THEN Thrown(updated)
     ELSE Returned(updated,
                   [Response("Which provider would you prefer?",
                             "provider_selection")
                      EXCEPT !.appointmentType = appointmentType,
                             !.providers = getAvailableProviders(appointmentType)])

handleAppointmentType(state, userMessage) ==
  LET appointmentType == detectAppointmentType(userMessage)
      updated == updateConversationState(state,
                   [ appointmentType |-> appointmentType,
                     step |-> "provider_selection" ])
  IN IF appointmentType = Null
     THEN Returned(state,
                   [Response("What type of appointment would you like?",
                             "appointment_type")
                      EXCEPT !.options = <<"Comprehensive evaluation",
                                           "Follow-up",
                                           "Ketamine consultation">>])
     ELSE IF getAvailableProvidersThrows(appointmentType)
     THEN Thrown(updated)
     ELSE LET availableProviders == getAvailableProviders(appointmentType)
          IN Returned(updated,
                      [Response("Which provider would you prefer?",
                                "provider_selection")
                         EXCEPT !.appointmentType = appointmentType,
                                !.providers = availableProviders,
                                !.options = Names(availableProviders)])

handleProviderSelection(state, userMessage) ==
  IF getAvailableProvidersThrows(state.appointmentType)
  THEN Thrown(state)
  ELSE LET selectedProvider ==
             detectProviderSelection(userMessage, state.appointmentType)
       IN IF selectedProvider = Null
          THEN LET availableProviders ==
                     getAvailableProviders(state.appointmentType)
               IN Returned(state,
                           [Response("I didn't catch that. Which provider?",
                                     "provider_selection")
                              EXCEPT !.providers = availableProviders,
                                     !.options = Names(availableProviders)])
          ELSE LET availableDates == getAvailableDates(selectedProvider[1])
               IN Returned(
                    updateConversationState(state,
                      [ preferredProvider |-> selectedProvider,
                        step |-> "date_selection" ]),
                    [Response("What date would work best for you?",
                              "date_selection")
                       EXCEPT !.provider = selectedProvider,
                              !.availableDates = availableDates,
                              !.options = FirstFive(availableDates)])

handleDateSelection(state, userMessage) ==
  LET selectedDate == detectDateSelection(userMessage)
      updated == updateConversationState(state,
                   [ preferredDate |-> selectedDate,
                     step |-> "time_selection" ])
  IN IF selectedDate = Null
     THEN IF state.preferredProvider = Null
          THEN Thrown(state)
          ELSE LET availableDates == getAvailableDates(state.preferredProvider[1])
               IN Returned(state,
                           [Response("I didn't catch that date", "date_selection")
                              EXCEPT !.availableDates = availableDates,
                                     !.options = FirstFive(availableDates)])
     ELSE IF state.preferredProvider = Null
     THEN Thrown(updated)
     ELSE LET availableTimes ==
                getAvailableTimes(state.preferredProvider[1], selectedDate[1])
          IN Returned(updated,
                      [Response("What time would work best for you?",
                                "time_selection")
                         EXCEPT !.date = selectedDate,
                                !.availableTimes = availableTimes,
                                !.options = FirstFive(availableTimes)])

\* the times offered again when no time was understood or the slot is taken
TimesOf(state) ==
  IF state.preferredDate = Null THEN <<>>
  ELSE getAvailableTimes(state.preferredProvider[1], state.preferredDate[1])

\* variant: a refused time is remembered as the preferred one
handleTimeSelection_remember(state, userMessage, isAvailable) ==
  LET selectedTime == detectTimeSelection(userMessage)
  IN IF state.preferredProvider = Null
     THEN Thrown(state)
     ELSE IF selectedTime = Null
     THEN Returned(state,
                   [Response("I didn't catch that time", "time_selection")
                      EXCEPT !.availableTimes = TimesOf(state)])
     ELSE IF ~isAvailable
     THEN Returned(updateConversationState(state,
                     [preferredTime |-> selectedTime]),
                   [Response("That time slot is no longer available",
                             "time_selection")
                      EXCEPT !.availableTimes = TimesOf(state)])
     ELSE Returned(
            updateConversationState(state,
              [ preferredTime |-> selectedTime,
                step |-> "insurance_verification" ]),
            Response("Now I need to verify your insurance information",
                     "insurance_verification"))

\* checkTimeAvailability draws at random; isAvailable is what it returned
handleTimeSelection(state, userMessage, isAvailable) ==
  LET selectedTime == detectTimeSelection(userMessage)
  IN IF state.preferredProvider = Null
     THEN (IF selectedTime # Null /\ isAvailable
           THEN Returned(
                  updateConversationState(state,
                    [ preferredTime |-> selectedTime,
                      step |-> "insurance_verification" ]),
                  [Response("Now I need to verify your insurance information",
                            "insurance_verification")
                     EXCEPT !.selectedSlot =
                              Some([ provider |-> state.preferredProvider,
                                     date |-> state.preferredDate,
                                     time |-> selectedTime[1],
                                     type |-> state.appointmentType ])])
           ELSE Thrown(state))
     ELSE IF selectedTime = Null
     THEN Returned(state,
                   [Response("I didn't catch that time", "time_selection")
                      EXCEPT !.availableTimes = TimesOf(state),
                             !.options = FirstFive(TimesOf(state))])
     ELSE IF ~isAvailable
     THEN Returned(state,
                   [Response("That time slot is no longer available",
                             "time_selection")
                      EXCEPT !.availableTimes = TimesOf(state),
                             !.options = FirstFive(TimesOf(state))])
     ELSE Returned(
            updateConversationState(state,
              [ preferredTime |-> selectedTime,
                step |-> "insurance_verification" ]),
            [Response("Now I need to verify your insurance information",
                      "insurance_verification")
               EXCEPT !.selectedSlot =
                        Some([ provider |-> state.preferredProvider,
                               date |-> state.preferredDate,
                               time |-> selectedTime[1],
                               type |-> state.appointmentType ])])

\* the shipped simulateInsuranceVerification answers verified for every
\* input; the handler also has a branch for the answer verified = false
simulateInsuranceVerification(insuranceInfo, verified) ==
  IF verified
  THEN [ verified |-> TRUE,
         provider |-> insuranceInfo.provider,
         copay |-> 25,
         deductible |-> 1000,
         deductibleMet |-> FALSE ]
  ELSE [ verified |-> FALSE,
         provider |-> insuranceInfo.provider,
         copay |-> 0,
         deductible |-> 0,
         deductibleMet |-> FALSE ]

handleInsuranceVerification(state, userMessage, verified) ==
  LET insuranceInfo == extractInsuranceInfo(userMessage)
  IN IF insuranceInfo.provider = Null
     THEN Returned(state,
                   [Response("What insurance provider do you have?",
                             "insurance_verification")
                      EXCEPT !.options = <<"Aetna", "Blue Cross Blue Shield",
                                           "Cigna", "Medicare", "Tricare">>])
     ELSE IF ~isAcceptedInsurance(insuranceInfo.provider[1])
     THEN Returned(state,
                   [Response("We don't accept that insurance",
                             "insurance_verification")
                      EXCEPT !.selfPayOption = TRUE,
                             !.options = <<"Yes, self-pay",
                                           "No, let me check my insurance">>])
     ELSE LET verificationResult ==
                simulateInsuranceVerification(insuranceInfo, verified)
              updated == updateConversationState(state,
                           [ insuranceVerified |-> TRUE,
                             insuranceInfo |-> Some(verificationResult),
                             step |-> "confirmation" ])
          IN IF ~verificationResult.verified
             THEN Returned(state,
                    [Response("I'm having trouble verifying your insurance",
                              "insurance_verification")
                       EXCEPT !.selfPayOption = TRUE,
                              !.options = <<"Self-pay", "Call back later">>])
             ELSE IF state.preferredProvider = Null
             THEN Thrown(updated)
             ELSE Returned(updated,
                    [Response("I've verified your insurance. Is this correct?",
                              "confirmation")
                       EXCEPT !.insuranceInfo = Some(verificationResult),
                              !.appointmentDetails =
                                Some([ type |-> state.appointmentType,
                                       provider |-> state.preferredProvider[1].name,
                                       date |-> state.preferredDate,
                                       time |-> state.preferredTime,
                                       copay |-> verificationResult.copay ])])

\* the shipped createAppointment succeeds for every input; the handler
\* also has a branch for success = false
createAppointment(success) ==
  IF success
  THEN [ success |-> TRUE, appointmentId |-> Some("apt_1"), error |-> Null ]
  ELSE [ success |-> FALSE, appointmentId |-> Null,
         error |-> Some("Appointment could not be created") ]

\* variant: a failed creation still completes the conversation
handleConfirmation_swallow(state, userMessage, success) ==
  LET confirmation == detectConfirmation(userMessage)
  IN IF confirmation = Some("yes")
     THEN Returned(updateConversationState(state, [step |-> "completed"]),
                   [Response("Your appointment has been scheduled",
                             "completed")
                      EXCEPT !.appointmentId = createAppointment(success).appointmentId,
                             !.confirmationSent = TRUE])
     ELSE IF confirmation = Some("no")
     THEN Returned(state,
                   Response("Let me know what you'd like to change",
                            "modification"))
     ELSE Returned(state,
                   Response("Is the appointment information correct?",
                            "confirmation"))

\* variant: the final step is stored under a misspelt name
handleConfirmation_typo(state, userMessage, success) ==
  LET confirmation == detectConfirmation(userMessage)
  IN IF confirmation = Some("yes")
     THEN IF success
          THEN Returned(updateConversationState(state, [step |-> "complete"]),
                        [Response("Your appointment has been scheduled",
                                  "completed")
                           EXCEPT !.appointmentId = Some("apt_1"),
                                  !.confirmationSent = TRUE])
          ELSE Returned(state,
                        Response("There was an issue scheduling your appointment",
                                 "confirmation"))
     ELSE IF confirmation = Some("no")
     THEN Returned(state,
                   Response("Let me know what you'd like to change",
                            "modification"))
     ELSE Returned(state,
                   Response("Is the appointment information correct?",
                            "confirmation"))

handleConfirmation(state, userMessage, success) ==
  LET confirmation == detectConfirmation(userMessage)
  IN IF confirmation = Some("yes")
     THEN LET appointmentResult == createAppointment(success)
          IN IF appointmentResult.success
             THEN Returned(updateConversationState(state, [step |-> "completed"]),
                           [Response("Your appointment has been scheduled",
                                     "completed")
                              EXCEPT !.appointmentId =
                                       appointmentResult.appointmentId,
                                     !.confirmationSent = TRUE])
             ELSE Returned(state,
                           [Response("There was an issue scheduling your appointment",
                                     "confirmation")
                              EXCEPT !.error = appointmentResult.error])
     ELSE IF confirmation = Some("no")
     THEN Returned(state,
                   [Response("Let me know what you'd like to change",
                             "modification")
                      EXCEPT !.options = <<"Change provider", "Change date",
                                           "Change time",
                                           "Change appointment type">>])
     ELSE Returned(state,
                   [Response("Is the appointment information correct?",
                             "confirmation")
                      EXCEPT !.options = <<"Yes", "No">>])

handleGeneralInquiry(state) ==
  Returned(state,
           [Response("Would you like to schedule, reschedule, or cancel?",
                     "greeting")
              EXCEPT !.options = <<"Schedule appointment",
                                   "Reschedule appointment",
                                   "Cancel appointment">>])

(***************************************************************************)
(* The dialogue driver.                                                    *)
(***************************************************************************)
\* the switch of processMessage; the class defines no handleRescheduling
\* and no handleCancellation, so calling them is a TypeError
Dispatch(state, userMessage, answer) ==
  CASE state.step = "greeting" -> handleGreeting(state, userMessage)
    [] state.step = "verification" ->
         handleVerification(state, userMessage, answer)
    [] state.step = "appointment_type" ->
         handleAppointmentType(state, userMessage)
    [] state.step = "provider_selection" ->
         handleProviderSelection(state, userMessage)
    [] state.step = "date_selection" ->
         handleDateSelection(state, userMessage)
    [] state.step = "time_selection" ->
         handleTimeSelection(state, userMessage, answer)
    [] state.step = "insurance_verification" ->
         handleInsuranceVerification(state, userMessage, answer)
    [] state.step = "confirmation" ->
         handleConfirmation(state, userMessage, answer)
    [] state.step \in {"rescheduling", "cancellation"} -> Thrown(state)
    [] OTHER -> handleGeneralInquiry(state)

\* the turns in which a handler asks a collaborator
Consults(state, userMessage) ==
  \/ /\ state.step = "verification"
     /\ extractVerificationData(userMessage).phoneNumber # Null
     /\ extractVerificationData(userMessage).dateOfBirth # Null
  \/ /\ state.step = "time_selection"
     /\ detectTimeSelection(userMessage) # Null
  \/ /\ state.step = "insurance_verification"
     /\ extractInsuranceInfo(userMessage).provider # Null
  \/ /\ state.step = "confirmation"
     /\ detectConfirmation(userMessage) = Some("yes")

Call(op, callId, resp) == [op |-> op, callId |-> callId, response |-> resp]

NoResponse == Response("", "")

RECURSIVE SumOver(_, _)
SumOver(f, S) ==
  IF S = {} THEN 0
  ELSE LET x == CHOOSE y \in S : TRUE
       IN f[x] + SumOver(f, S \ {x})

UserTurns(state) ==
  Len(SelectSeq(state.conversationHistory, LAMBDA e : e.role = "user"))

StepIndex(step) ==
  CASE step = "greeting" -> 0
    [] step = "verification" -> 1
    [] step = "appointment_type" -> 2
    [] step = "provider_selection" -> 3
    [] step = "date_selection" -> 4
    [] step = "time_selection" -> 5
    [] step = "insurance_verification" -> 6
    [] step = "confirmation" -> 7
    [] step = "completed" -> 8
    [] OTHER -> 8

TotalHistory(states) ==
  SumOver([c \in DOMAIN states |-> Len(states[c].conversationHistory)],
          DOMAIN states)

\* the turns of the stored conversations that did not advance the step
TotalSlack(states) ==
  SumOver([c \in DOMAIN states |->
             UserTurns(states[c]) - StepIndex(states[c].step)],
          DOMAIN states)

HistoryBound == IF Cardinality(calls) > 1 THEN MaxSharedHistory ELSE MaxHistory

Init ==
  /\ conversationStates = [c \in {} |-> NewState(c)]
  /\ providerSchedules \in {DocumentedSchedules, DefaultSchedules}
  /\ calls \in {{"call_001"}, CallIds}
  /\ lastCall = Call("constructor", "", NoResponse)
  /\ now = 0
  /\ pending = [i \in {} |-> Null]
  /\ verificationAttempts = [k \in {} |-> Null]
  /\ lastVerify = Null
  /\ failedCalls = [k \in {} |-> 0]
  /\ writeBehindQueue = <<>>
  /\ batch = <<>>
  /\ intakeq = <<>>
  /\ accepted = 0
  /\ syncFailures = 0
  /\ attempted = [n \in {} |-> 0]
  /\ requests = [c \in {} |-> <<>>]
  /\ lastRequest = Null
  /\ admitted = [c \in {} |-> <<>>]

\* variant: a call that already has a record keeps it
initializeConversation_keep(callId) ==
  /\ conversationStates' =
       [c \in DOMAIN conversationStates \cup {callId} |->
          IF c \in DOMAIN conversationStates
          THEN conversationStates[c]
          ELSE NewState(callId)]
  /\ lastCall' = Call("initializeConversation", callId, NoResponse)
  /\ UNCHANGED <<providerSchedules, calls, now, pending, serviceVars>>

initializeConversation(callId) ==
  /\ conversationStates' =
       [c \in DOMAIN conversationStates \cup {callId} |->
          IF c = callId THEN NewState(callId) ELSE conversationStates[c]]
  /\ lastCall' = Call("initializeConversation", callId, NoResponse)
  /\ UNCHANGED <<providerSchedules, calls, now, pending, serviceVars>>

\* variant: a message for an unknown call creates its record
processMessage_autoCreate(callId, userMessage, answer) ==
  /\ IF getConversationState(callId) = Null
     THEN /\ answer
          /\ conversationStates' =
               [c \in DOMAIN conversationStates \cup {callId} |->
                  IF c = callId THEN NewState(callId) ELSE conversationStates[c]]
          /\ lastCall' = Call("processMessage", callId, getErrorResponse)
     ELSE LET state == addToHistory(conversationStates[callId], "user",
                                    userMessage)
              out == Dispatch(state, userMessage, answer)
          IN /\ TotalHistory(conversationStates) + 2 <= HistoryBound
             /\ answer \/ Consults(state, userMessage)
             /\ conversationStates' =
                  [conversationStates EXCEPT ![callId] =
                     IF out.threw THEN out.state
                     ELSE addToHistory(out.state, "agent", out.response.message)]
             /\ TotalSlack(conversationStates') <= MaxSlack
             /\ lastCall' = Call("processMessage", callId, out.response)
  /\ UNCHANGED <<providerSchedules, calls, now, pending, serviceVars>>

processMessage(callId, userMessage, answer) ==
  /\ IF getConversationState(callId) = Null
     THEN /\ answer
          /\ conversationStates' = conversationStates
          /\ lastCall' = Call("processMessage", callId, getErrorResponse)
     ELSE LET state == addToHistory(conversationStates[callId], "user",
                                    userMessage)
              out == Dispatch(state, userMessage, answer)
          IN /\ TotalHistory(conversationStates) + 2 <= HistoryBound
             /\ answer \/ Consults(state, userMessage)
             /\ conversationStates' =
                  [conversationStates EXCEPT ![callId] =
                     IF out.threw THEN out.state
                     ELSE addToHistory(out.state, "agent", out.response.message)]
             /\ TotalSlack(conversationStates') <= MaxSlack
             /\ lastCall' = Call("processMessage", callId, out.response)
  /\ UNCHANGED <<providerSchedules, calls, now, pending, serviceVars>>

\* variant: the whole store is emptied
cleanupConversation_clear(callId) ==
  /\ conversationStates' =
       [c \in {} |-> conversationStates[c]]
  /\ lastCall' = Call("cleanupConversation", callId, NoResponse)
  /\ UNCHANGED <<providerSchedules, calls, now, pending, serviceVars>>

cleanupConversation(callId) ==
  /\ conversationStates' =
       [c \in DOMAIN conversationStates \ {callId} |-> conversationStates[c]]
  /\ lastCall' = Call("cleanupConversation", callId, NoResponse)
  /\ UNCHANGED <<providerSchedules, calls, now, pending, serviceVars>>

Next ==
  \/ \E callId \in calls : initializeConversation(callId)
  \/ \E callId \in calls, userMessage \in Utterances, answer \in BOOLEAN :
       processMessage(callId, userMessage, answer)
  \/ \E callId \in calls : cleanupConversation(callId)

Spec == Init /\ [][Next]_vars

(***************************************************************************)
(* The store with a running clock.  The public methods of the store are    *)
(* called directly, as the tests do, and time passes between the calls.    *)
(***************************************************************************)
\* the field sets a caller merges into a record
Updates ==
  { [step |-> "verification"],
    [clientVerified |-> TRUE, step |-> "appointment_type"] }

\* the messages a caller appends to a transcript
Entries ==
  { [role |-> "user", content |-> "Hello, how are you?"],
    [role |-> "agent", content |-> "Hi there!"] }

\* time passes
Tick ==
  /\ now < MaxClock
  /\ now' = now + 1
  /\ UNCHANGED <<conversationStates, providerSchedules, calls, lastCall, pending, serviceVars>>

\* variant: the merge leaves lastActivity as it was
updateConversationStateCall_stale(callId, updates) ==
  /\ conversationStates' =
       [c \in DOMAIN conversationStates |->
          IF c = callId
          THEN [f \in DOMAIN conversationStates[c] |->
                  IF f \in DOMAIN updates THEN updates[f]
                  ELSE conversationStates[c][f]]
          ELSE conversationStates[c]]
  /\ lastCall' = Call("updateConversationState", callId, NoResponse)
  /\ UNCHANGED <<providerSchedules, calls, now, pending, serviceVars>>

\* updateConversationState(callId, updates) called on the store
updateConversationStateCall(callId, updates) ==
  /\ IF getConversationState(callId) # Null
     THEN conversationStates' =
            [conversationStates EXCEPT ![callId] =
               updateConversationState(@, updates)]
     ELSE conversationStates' = conversationStates
  /\ lastCall' = Call("updateConversationState", callId, NoResponse)
  /\ UNCHANGED <<providerSchedules, calls, now, pending, serviceVars>>

\* addToHistory(callId, role, content) called on the store
addToHistoryCall(callId, role, content) ==
  /\ IF getConversationState(callId) # Null
     THEN conversationStates' =
            [conversationStates EXCEPT ![callId] =
               addToHistory(@, role, content)]
     ELSE conversationStates' = conversationStates
  /\ lastCall' = Call("addToHistory", callId, NoResponse)
  /\ UNCHANGED <<providerSchedules, calls, now, pending, serviceVars>>

NextStore ==
  \/ Tick
  \/ \E callId \in calls : initializeConversation(callId)
  \/ \E callId \in calls, updates \in Updates :
       updateConversationStateCall(callId, updates)
  \/ \E callId \in calls, entry \in Entries :
       /\ TotalHistory(conversationStates) < MaxStoreHistory
       /\ addToHistoryCall(callId, entry.role, entry.content)
  \/ \E callId \in calls, userMessage \in Utterances, answer \in BOOLEAN :
       /\ TotalHistory(conversationStates) + 2 <= MaxStoreHistory
       /\ processMessage(callId, userMessage, answer)
  \/ \E callId \in calls : cleanupConversation(callId)

\* the platform uses one call identifier
InitOneCall == Init /\ calls = {"call_001"}

SpecStore == InitOneCall /\ [][NextStore]_vars

(***************************************************************************)
(* Concurrent invocations.  processMessage is an async function: it runs   *)
(* up to its first await, is suspended there, and other invocations run    *)
(* before it resumes.  A handler that asks a collaborator awaits the       *)
(* answer before it writes; the other handlers write first, and            *)
(* processMessage is then suspended at its own await of the handler.       *)
(***************************************************************************)
Invocations == 1..MaxPending

Suspended(callId, userMessage, step, at, response, threw) ==
  [ callId |-> callId, userMessage |-> userMessage, step |-> step,
    at |-> at, response |-> response, threw |-> threw ]

\* no invocation for the call is suspended
Idle(callId) == \A i \in DOMAIN pending : pending[i].callId # callId

\* processMessage from its entry to its first await, while the store holds
\* fewer than maxHistory history entries
processMessageStartWithin(callId, userMessage, maxHistory) ==
  /\ DOMAIN pending # Invocations
  /\ IF getConversationState(callId) = Null
     THEN /\ lastCall' = Call("processMessage", callId, getErrorResponse)
          /\ UNCHANGED <<conversationStates, pending>>
     ELSE LET i == CHOOSE k \in Invocations \ DOMAIN pending :
                     \A j \in Invocations \ DOMAIN pending : k <= j
              state == addToHistory(conversationStates[callId], "user",
                                    userMessage)
              out == Dispatch(state, userMessage, TRUE)
              next == IF Consults(state, userMessage)
                      THEN Suspended(callId, userMessage, state.step,
                                     "collaborator", NoResponse, FALSE)
                      ELSE Suspended(callId, userMessage, state.step,
                                     "handler", out.response, out.threw)
          IN /\ TotalHistory(conversationStates) + 2 <= maxHistory
             /\ conversationStates' =
                  [conversationStates EXCEPT ![callId] =
                     IF Consults(state, userMessage) THEN state ELSE out.state]
             /\ pending' = [k \in DOMAIN pending \cup {i} |->
                              IF k = i THEN next ELSE pending[k]]
             /\ TotalSlack(conversationStates') <=
                  MaxSlack + Cardinality(DOMAIN pending')
             /\ lastCall' = lastCall
  /\ UNCHANGED <<providerSchedules, calls, now, serviceVars>>

processMessageStart(callId, userMessage) ==
  processMessageStartWithin(callId, userMessage, MaxAsyncHistory)

\* the collaborator answers and the handler runs from its await to its
\* return, on the record as it is now
processMessageResume(i, answer) ==
  /\ i \in DOMAIN pending
  /\ pending[i].at = "collaborator"
  /\ pending[i].callId \in DOMAIN conversationStates
  /\ LET callId == pending[i].callId
         state == [conversationStates[callId] EXCEPT !.step = pending[i].step]
         out == Dispatch(state, pending[i].userMessage, answer)
     IN /\ conversationStates' =
             [conversationStates EXCEPT ![callId] =
                IF out.state = state THEN @ ELSE out.state]
        /\ pending' = [pending EXCEPT ![i].at = "handler",
                                      ![i].response = out.response,
                                      ![i].threw = out.threw]
  /\ UNCHANGED <<providerSchedules, calls, lastCall, now, serviceVars>>

\* processMessage from the await of its handler to its return
processMessageReturn(i) ==
  /\ i \in DOMAIN pending
  /\ pending[i].at = "handler"
  /\ pending[i].callId \in DOMAIN conversationStates
  /\ LET callId == pending[i].callId
     IN /\ conversationStates' =
             [conversationStates EXCEPT ![callId] =
                IF pending[i].threw THEN @
                ELSE addToHistory(@, "agent", pending[i].response.message)]
        /\ lastCall' = Call("processMessage", callId, pending[i].response)
  /\ pending' = [k \in DOMAIN pending \ {i} |-> pending[k]]
  /\ UNCHANGED <<providerSchedules, calls, now, serviceVars>>

NextAsync ==
  \/ \E callId \in calls : Idle(callId) /\ initializeConversation(callId)
  \/ \E callId \in calls, userMessage \in Utterances :
       processMessageStart(callId, userMessage)
  \/ \E i \in Invocations, answer \in BOOLEAN : processMessageResume(i, answer)
  \/ \E i \in Invocations : processMessageReturn(i)

SpecAsync == InitOneCall /\ [][NextAsync]_vars

(***************************************************************************)
(* VerificationService.  A string the service works on character by        *)
(* character is a sequence of one-character strings.  bcrypt.hash draws a  *)
(* fresh salt on every call and its output carries the salt, so a hash is  *)
(* the pair of the salt and the hashed data, and the salts of one          *)
(* verifyClient call are chosen freely.  A verifyClient call runs to its   *)
(* return before the next one starts.  verificationAttempts keeps the      *)
(* attempts and lockoutUntil fields of a record; firstAttempt and          *)
(* lastAttempt are written and never read.  lastVerify is the result of    *)
(* the latest call; failedCalls counts, per normalized phone number, the    *)
(* calls that returned verified = false since the last verified one.       *)
(***************************************************************************)
maxAttempts == 3

lockoutDuration == 15 * 60 * 1000

\* salts bcrypt can draw
MaxSalt == 2
\* failed calls counted for one phone number
MaxFailedCalls == 3
\* lockouts the clock of the service runs through
MaxLockouts == 1

Salts == 1..MaxSalt

Digits == {"0", "1", "2", "3", "4", "5", "6", "7", "8", "9"}

\* '+19041234567', '9041234567', '123'
PhoneNumbers ==
  { <<"+", "1", "9", "0", "4", "1", "2", "3", "4", "5", "6", "7">>,
    <<"9", "0", "4", "1", "2", "3", "4", "5", "6", "7">>,
    <<"1", "2", "3">> }

\* '1985-03-15', '03/15/1985', '3/15/1985', 'wrong-dob'
DatesOfBirth ==
  { <<"1", "9", "8", "5", "-", "0", "3", "-", "1", "5">>,
    <<"0", "3", "/", "1", "5", "/", "1", "9", "8", "5">>,
    <<"3", "/", "1", "5", "/", "1", "9", "8", "5">>,
    <<"w", "r", "o", "n", "g", "-", "d", "o", "b">> }

\* the clients of the mock database, before hashing
MockClients ==
  << [ id |-> "client_001", name |-> "John Doe",
       phone |-> <<"+", "1", "9", "0", "4", "1", "2", "3", "4", "5", "6", "7">>,
       dob |-> <<"1", "9", "8", "5", "-", "0", "3", "-", "1", "5">> ],
     [ id |-> "client_002", name |-> "Jane Smith",
       phone |-> <<"+", "1", "9", "0", "4", "7", "6", "5", "4", "3", "2", "1">>,
       dob |-> <<"1", "9", "9", "0", "-", "0", "7", "-", "2", "2">> ] >>

\* s.replace(/\D/g, '')
DigitsOf(s) == SelectSeq(s, LAMBDA c : c \in Digits)

isValidPhoneNumber(phoneNumber) == Len(DigitsOf(phoneNumber)) \in {10, 11}

normalizePhoneNumber(phoneNumber) ==
  LET digits == DigitsOf(phoneNumber)
  IN  <<"+">> \o (IF Len(digits) = 10 THEN <<"1">> \o digits ELSE digits)

DateSeparators == {"/", "-"}

\* s.split on the characters of seps
RECURSIVE SplitOn(_, _)
SplitOn(s, seps) ==
  IF \A i \in DOMAIN s : s[i] \notin seps
  THEN <<s>>
  ELSE LET i == CHOOSE k \in DOMAIN s :
                  /\ s[k] \in seps
                  /\ \A j \in 1..(k - 1) : s[j] \notin seps
       IN  <<SubSeq(s, 1, i - 1)>> \o SplitOn(SubSeq(s, i + 1, Len(s)), seps)

\* \d{lo,hi}
DigitRun(s, lo, hi) == Len(s) \in lo..hi /\ \A i \in DOMAIN s : s[i] \in Digits

\* ^\d{1,2}<sep>\d{1,2}<sep>\d{4}$
MonthDayYear(s, seps) ==
  LET parts == SplitOn(s, seps)
  IN  /\ Len(parts) = 3
      /\ DigitRun(parts[1], 1, 2)
      /\ DigitRun(parts[2], 1, 2)
      /\ DigitRun(parts[3], 4, 4)

\* ^\d{4}<sep>\d{1,2}<sep>\d{1,2}$
YearMonthDay(s, seps) ==
  LET parts == SplitOn(s, seps)
  IN  /\ Len(parts) = 3
      /\ DigitRun(parts[1], 4, 4)
      /\ DigitRun(parts[2], 1, 2)
      /\ DigitRun(parts[3], 1, 2)

isValidDateOfBirth(dateOfBirth) ==
  \/ MonthDayYear(dateOfBirth, DateSeparators)
  \/ YearMonthDay(dateOfBirth, DateSeparators)

\* part.padStart(2, '0')
PadStart2(part) == IF Len(part) < 2 THEN <<"0">> \o part ELSE part

normalizeDateOfBirth(dateOfBirth) ==
  LET normalized == [i \in DOMAIN dateOfBirth |->
                       IF dateOfBirth[i] \in DateSeparators
                       THEN "/" ELSE dateOfBirth[i]]
      parts == SplitOn(normalized, {"/"})
  IN  IF MonthDayYear(normalized, {"/"})
      THEN parts[3] \o <<"-">> \o PadStart2(parts[1]) \o <<"-">>
             \o PadStart2(parts[2])
      ELSE normalized

\* bcrypt.hash(data, 10) with the salt it drew
hashSensitiveData(data, salt) == [salt |-> salt, data |-> data]

\* the salts of one verifyClient call: the two hashes of the input, then the
\* four hashes of the mock database.  Hashes are only compared, phone hashes
\* with phone hashes and date hashes with date hashes, so the salts are named
\* after the ones the input drew.
SaltChoices == {salts \in [1..6 -> Salts] : salts[1] = 1 /\ salts[2] = 1}

getMockClientDatabase(salts) ==
  [ i \in DOMAIN MockClients |->
      [ id |-> MockClients[i].id,
        name |-> MockClients[i].name,
        phoneHash |-> hashSensitiveData(MockClients[i].phone, salts[2 * i + 1]),
        dobHash |-> hashSensitiveData(MockClients[i].dob, salts[2 * i + 2]) ] ]

VerifyResult(verified, error, clientId, clientName, remaining, expires) ==
  [ verified |-> verified, error |-> error, clientId |-> clientId,
    clientName |-> clientName, attemptsRemaining |-> remaining,
    lockoutExpires |-> expires ]

\* the first client of the database with both hashes, or verified = false
performVerification(phoneHash, dobHash, salts) ==
  LET db == getMockClientDatabase(salts)
      hits == { i \in DOMAIN db : /\ db[i].phoneHash = phoneHash
                                  /\ db[i].dobHash = dobHash }
  IN  IF hits = {}
      THEN VerifyResult(FALSE, Null, Null, Null, Null, Null)
      ELSE LET i == CHOOSE k \in hits : \A j \in hits : k <= j
           IN  VerifyResult(TRUE, Null, Some(db[i].id), Some(db[i].name),
                            Null, Null)

\* the map after recordFailedAttempt
recordFailedAttempt(attempts, phoneNumber) ==
  LET key == normalizePhoneNumber(phoneNumber)
      count == IF key \in DOMAIN attempts THEN attempts[key].attempts + 1 ELSE 1
      lockoutUntil == IF count >= maxAttempts
                      THEN Some(now + lockoutDuration)
                      ELSE IF key \in DOMAIN attempts
                           THEN attempts[key].lockoutUntil ELSE Null
  IN  [ k \in DOMAIN attempts \cup {key} |->
          IF k = key
          THEN [attempts |-> count, lockoutUntil |-> lockoutUntil]
          ELSE attempts[k] ]

\* the map after clearFailedAttempts
clearFailedAttempts(attempts, phoneNumber) ==
  [ k \in DOMAIN attempts \ {normalizePhoneNumber(phoneNumber)} |-> attempts[k] ]

\* the lockout of the number has run out
LockoutExpired(attempts, phoneNumber) ==
  LET key == normalizePhoneNumber(phoneNumber)
  IN  /\ key \in DOMAIN attempts
      /\ attempts[key].lockoutUntil # Null
      /\ now > attempts[key].lockoutUntil[1]

\* variant: no number is ever locked out
isLockedOut_never(attempts, phoneNumber) == FALSE

\* what isLockedOut returns
isLockedOut(attempts, phoneNumber) ==
  LET key == normalizePhoneNumber(phoneNumber)
  IN  /\ key \in DOMAIN attempts
      /\ attempts[key].lockoutUntil # Null
      /\ ~(now > attempts[key].lockoutUntil[1])

\* the map isLockedOut leaves: a record whose lockout ran out is deleted
AfterLockoutCheck(attempts, phoneNumber) ==
  IF LockoutExpired(attempts, phoneNumber)
  THEN clearFailedAttempts(attempts, phoneNumber)
  ELSE attempts

getRemainingAttempts(attempts, phoneNumber) ==
  LET key == normalizePhoneNumber(phoneNumber)
  IN  IF key \notin DOMAIN attempts
      THEN maxAttempts
      ELSE IF maxAttempts - attempts[key].attempts > 0
           THEN maxAttempts - attempts[key].attempts ELSE 0

\* the instant the lockout ends, which the code returns as an ISO string
getLockoutExpiration(attempts, phoneNumber) ==
  LET key == normalizePhoneNumber(phoneNumber)
  IN  IF key \notin DOMAIN attempts THEN Null ELSE attempts[key].lockoutUntil

FailedCalls(phoneNumber) ==
  LET key == normalizePhoneNumber(phoneNumber)
  IN  IF key \in DOMAIN failedCalls THEN failedCalls[key] ELSE 0

\* the result of verifyClient and the map it leaves
verifyClientOutcome(phoneNumber, dateOfBirth, salts) ==
  IF ~isValidPhoneNumber(phoneNumber)
  THEN [ result |-> VerifyResult(FALSE, Some("Invalid phone number format"),
                     Null, Null,
                     Some(getRemainingAttempts(verificationAttempts, phoneNumber)),
                     Null),
         attempts |-> verificationAttempts ]
  ELSE IF ~isValidDateOfBirth(dateOfBirth)
  THEN [ result |-> VerifyResult(FALSE, Some("Invalid date of birth format"),
                     Null, Null,
                     Some(getRemainingAttempts(verificationAttempts, phoneNumber)),
                     Null),
         attempts |-> verificationAttempts ]
  ELSE IF isLockedOut(verificationAttempts, phoneNumber)
  THEN [ result |-> VerifyResult(FALSE,
                     Some("Too many failed attempts. Please try again later."),
                     Null, Null, Null,
                     getLockoutExpiration(verificationAttempts, phoneNumber)),
         attempts |-> verificationAttempts ]
  ELSE LET checked == AfterLockoutCheck(verificationAttempts, phoneNumber)
           phoneHash == hashSensitiveData(normalizePhoneNumber(phoneNumber),
                                          salts[1])
           dobHash == hashSensitiveData(normalizeDateOfBirth(dateOfBirth),
                                        salts[2])
           verificationResult == performVerification(phoneHash, dobHash, salts)
       IN  IF verificationResult.verified
           THEN [ result |-> verificationResult,
                  attempts |-> clearFailedAttempts(checked, phoneNumber) ]
           ELSE LET recorded == recordFailedAttempt(checked, phoneNumber)
                IN  [ result |-> VerifyResult(FALSE,
                        Some("Phone number and date of birth do not match our records"),
                        Null, Null,
                        Some(getRemainingAttempts(recorded, phoneNumber)),
                        Null),
                      attempts |-> recorded ]

verifyClient(phoneNumber, dateOfBirth, salts) ==
  LET outcome == verifyClientOutcome(phoneNumber, dateOfBirth, salts)
      key == normalizePhoneNumber(phoneNumber)
  IN  /\ FailedCalls(phoneNumber) <= MaxFailedCalls
      /\ verificationAttempts' = outcome.attempts
      /\ lastVerify' = Some(outcome.result)
      /\ failedCalls' =
           [ k \in DOMAIN failedCalls \cup {key} |->
               IF k # key THEN failedCalls[k]
               ELSE IF outcome.result.verified THEN 0
               ELSE FailedCalls(phoneNumber) + 1 ]
      /\ UNCHANGED <<conversationStates, providerSchedules, calls, lastCall,
                     now, pending, cacheVars, rateVars>>

\* the instants the service is called at: the start of a lockout, a
\* millisecond later, its last millisecond and the first one after it
VerifyInstants ==
  { k * (lockoutDuration + 1) + d :
      k \in 0..(MaxLockouts - 1), d \in {0, 1, lockoutDuration} }
    \cup {MaxLockouts * (lockoutDuration + 1)}

\* time passes until a later instant
TickVerify ==
  \E t \in VerifyInstants :
    /\ t > now
    /\ now' = t
    /\ UNCHANGED <<conversationStates, providerSchedules, calls, lastCall,
                   pending, serviceVars>>

\* the salts a verifyClient call can draw: a call that returns before it
\* hashes draws none
SaltsDrawn(phoneNumber, dateOfBirth) ==
  IF /\ isValidPhoneNumber(phoneNumber)
     /\ isValidDateOfBirth(dateOfBirth)
     /\ ~isLockedOut(verificationAttempts, phoneNumber)
  THEN SaltChoices
  ELSE {[i \in 1..6 |-> 1]}

NextVerify ==
  \/ \E phoneNumber \in PhoneNumbers, dateOfBirth \in DatesOfBirth :
       \E salts \in SaltsDrawn(phoneNumber, dateOfBirth) :
         verifyClient(phoneNumber, dateOfBirth, salts)
  \/ TickVerify

InitVerify == InitOneCall /\ providerSchedules = DocumentedSchedules

SpecVerify == InitVerify /\ [][NextVerify]_vars

(***************************************************************************)
(* CacheService, the write-behind interface.  Redis and the IntakeQ        *)
(* backend are collaborators: a cache call either returns or rejects       *)
(* (threw), get returns the cached data or null (currentData), and a sync  *)
(* of the backend either succeeds or rejects (ok).  An entry of the queue  *)
(* carries the number n of the accepted operation it was pushed for, in    *)
(* the place of its timestamp; accepted counts the operations accepted so  *)
(* far and intakeq lists the operations applied to the backend.  batch is  *)
(* what is left of the batch the processor took from the queue; the        *)
(* processor takes a new batch when it is done with the last one.          *)
(* syncFailures counts the syncs that rejected and attempted counts, per    *)
(* accepted operation, the syncs that were started for it.                 *)
(***************************************************************************)
batchSize == 10

maxRetries == 3

\* operations the write-behind interface accepts
MaxAccepted == 2
\* syncs of the backend that reject: enough for every accepted operation to
\* use up its retries
MaxSyncFailures == 8

CacheKeys == {"test:key"}

CacheValues == {"data", "updated"}

QueueEntry(operation, key, value, n) ==
  [ operation |-> operation, key |-> key, value |-> value, retries |-> 0,
    n |-> n ]

writeBehindSet(key, value, threw) ==
  /\ accepted < MaxAccepted
  /\ IF threw
     THEN UNCHANGED <<writeBehindQueue, accepted>>
     ELSE /\ writeBehindQueue' =
               Append(writeBehindQueue,
                      QueueEntry("set", key, Some(value), accepted + 1))
          /\ accepted' = accepted + 1
  /\ UNCHANGED <<conversationStates, providerSchedules, calls, lastCall, now,
                 pending, verifyVars, batch, intakeq, syncFailures, attempted,
                 rateVars>>

writeBehindUpdate(key, updatedData, currentData, threw) ==
  /\ accepted < MaxAccepted
  /\ IF threw \/ currentData = Null
     THEN UNCHANGED <<writeBehindQueue, accepted>>
     ELSE /\ writeBehindQueue' =
               Append(writeBehindQueue,
                      QueueEntry("update", key, Some(updatedData), accepted + 1))
          /\ accepted' = accepted + 1
  /\ UNCHANGED <<conversationStates, providerSchedules, calls, lastCall, now,
                 pending, verifyVars, batch, intakeq, syncFailures, attempted,
                 rateVars>>

writeBehindDelete(key, threw) ==
  /\ accepted < MaxAccepted
  /\ IF threw
     THEN UNCHANGED <<writeBehindQueue, accepted>>
     ELSE /\ writeBehindQueue' =
               Append(writeBehindQueue,
                      QueueEntry("delete", key, Null, accepted + 1))
          /\ accepted' = accepted + 1
  /\ UNCHANGED <<conversationStates, providerSchedules, calls, lastCall, now,
                 pending, verifyVars, batch, intakeq, syncFailures, attempted,
                 rateVars>>

\* the first count entries of a queue
Spliced(queue, count) ==
  SubSeq(queue, 1, IF Len(queue) < count THEN Len(queue) ELSE count)

\* the queue splice(0, count) leaves
AfterSplice(queue, count) ==
  SubSeq(queue, (IF Len(queue) < count THEN Len(queue) ELSE count) + 1,
         Len(queue))

\* the interval callback up to its first await: the batch leaves the queue
flushStart ==
  /\ writeBehindQueue # <<>>
  /\ batch = <<>>
  /\ batch' = Spliced(writeBehindQueue, batchSize)
  /\ writeBehindQueue' = AfterSplice(writeBehindQueue, batchSize)
  /\ UNCHANGED <<conversationStates, providerSchedules, calls, lastCall, now,
                 pending, verifyVars, intakeq, accepted, syncFailures, attempted,
                 rateVars>>

\* variant: an operation that failed is pushed back whatever its retries
flushOperation_retryForever(ok) ==
  /\ batch # <<>>
  /\ batch' = Tail(batch)
  /\ attempted' =
       [n \in DOMAIN attempted \cup {Head(batch).n} |->
          IF n = Head(batch).n
          THEN (IF n \in DOMAIN attempted THEN attempted[n] ELSE 0) + 1
          ELSE attempted[n]]
  /\ IF ok
     THEN /\ intakeq' = Append(intakeq, Head(batch))
          /\ UNCHANGED <<writeBehindQueue, syncFailures>>
     ELSE /\ syncFailures < MaxSyncFailures
          /\ syncFailures' = syncFailures + 1
          /\ writeBehindQueue' =
               Append(writeBehindQueue,
                      [Head(batch) EXCEPT !.retries = @ + 1])
          /\ UNCHANGED intakeq
  /\ UNCHANGED <<conversationStates, providerSchedules, calls, lastCall, now,
                 pending, verifyVars, accepted, rateVars>>

\* the interval callback from one await to the next: processWriteBehindOperation
\* of the next operation of the batch has returned or rejected
flushOperation(ok) ==
  /\ batch # <<>>
  /\ batch' = Tail(batch)
  /\ attempted' =
       [n \in DOMAIN attempted \cup {Head(batch).n} |->
          IF n = Head(batch).n
          THEN (IF n \in DOMAIN attempted THEN attempted[n] ELSE 0) + 1
          ELSE attempted[n]]
  /\ IF ok
     THEN /\ intakeq' = Append(intakeq, Head(batch))
          /\ UNCHANGED <<writeBehindQueue, syncFailures>>
     ELSE /\ syncFailures < MaxSyncFailures
          /\ syncFailures' = syncFailures + 1
          /\ writeBehindQueue' =
               IF Head(batch).retries < maxRetries
               THEN Append(writeBehindQueue,
                           [Head(batch) EXCEPT !.retries = @ + 1])
               ELSE writeBehindQueue
          /\ UNCHANGED intakeq
  /\ UNCHANGED <<conversationStates, providerSchedules, calls, lastCall, now,
                 pending, verifyVars, accepted, rateVars>>

NextCache ==
  \/ \E key \in CacheKeys, value \in CacheValues, threw \in BOOLEAN :
       writeBehindSet(key, value, threw)
  \/ \E key \in CacheKeys, updatedData \in CacheValues,
        currentData \in {Null} \cup {Some(v) : v \in CacheValues},
        threw \in BOOLEAN :
       writeBehindUpdate(key, updatedData, currentData, threw)
  \/ \E key \in CacheKeys, threw \in BOOLEAN : writeBehindDelete(key, threw)
  \/ flushStart
  \/ \E ok \in BOOLEAN : flushOperation(ok)

InitCache == InitOneCall /\ providerSchedules = DocumentedSchedules

SpecCache == InitCache /\ [][NextCache]_vars

\* the interval keeps firing and every sync returns or rejects; syncs reject
\* MaxSyncFailures times at most
SpecCacheFair ==
  /\ SpecCache
  /\ WF_vars(flushStart)
  /\ WF_vars(\E ok \in BOOLEAN : flushOperation(ok))

(***************************************************************************)
(* SecurityMiddleware.rateLimit.  One middleware, created with windowMs    *)
(* and maxRequests, serves the requests of the client addresses.  requests *)
(* is the map of the closure; lastRequest is what the latest request got:  *)
(* next() or the 429 response.  admitted lists, per client address, the    *)
(* timestamps of the requests that were passed on to next().               *)
(***************************************************************************)
\* the arguments the middleware is created with
windowMs == 3
maxRequests == 2
\* milliseconds on the clock of the middleware
MaxRateClock == 4

ClientAddresses == {"10.0.0.1", "10.0.0.2"}

\* Math.ceil(ms / 1000)
CeilSeconds(ms) == (ms + 999) \div 1000

\* clientRequests.filter(timestamp => timestamp > windowStart)
recentRequests(clientRequests, windowStart) ==
  SelectSeq(clientRequests, LAMBDA timestamp : timestamp > windowStart)

RateResponse(clientId, next, status, error, retryAfter) ==
  [ clientId |-> clientId, next |-> next, status |-> status, error |-> error,
    retryAfter |-> retryAfter ]

\* variant: the limit is compared with > instead of >=
rateLimit_offByOne(clientId) ==
  LET windowStart == now - windowMs
      clientRequests ==
        IF clientId \in DOMAIN requests
        THEN recentRequests(requests[clientId], windowStart)
        ELSE <<>>
  IN  /\ IF Len(clientRequests) > maxRequests
         THEN /\ requests' = [c \in DOMAIN requests \cup {clientId} |->
                                IF c = clientId THEN clientRequests
                                ELSE requests[c]]
              /\ lastRequest' = Some(RateResponse(clientId, FALSE, Some(429),
                                       Some("Rate limit exceeded"),
                                       Some(CeilSeconds(windowMs))))
              /\ UNCHANGED admitted
         ELSE /\ requests' = [c \in DOMAIN requests \cup {clientId} |->
                                IF c = clientId
                                THEN Append(clientRequests, now)
                                ELSE requests[c]]
              /\ lastRequest' = Some(RateResponse(clientId, TRUE, Null, Null,
                                                  Null))
              /\ admitted' = [c \in DOMAIN admitted \cup {clientId} |->
                                IF c \in DOMAIN admitted
                                THEN IF c = clientId
                                     THEN Append(admitted[c], now)
                                     ELSE admitted[c]
                                ELSE <<now>>]
      /\ UNCHANGED <<conversationStates, providerSchedules, calls, lastCall,
                     now, pending, verifyVars, cacheVars>>

\* the middleware on a request of clientId
rateLimit(clientId) ==
  LET windowStart == now - windowMs
      clientRequests ==
        IF clientId \in DOMAIN requests
        THEN recentRequests(requests[clientId], windowStart)
        ELSE <<>>
  IN  /\ IF Len(clientRequests) >= maxRequests
         THEN /\ requests' = [c \in DOMAIN requests \cup {clientId} |->
                                IF c = clientId THEN clientRequests
                                ELSE requests[c]]
              /\ lastRequest' = Some(RateResponse(clientId, FALSE, Some(429),
                                       Some("Rate limit exceeded"),
                                       Some(CeilSeconds(windowMs))))
              /\ UNCHANGED admitted
         ELSE /\ requests' = [c \in DOMAIN requests \cup {clientId} |->
                                IF c = clientId
                                THEN Append(clientRequests, now)
                                ELSE requests[c]]
              /\ lastRequest' = Some(RateResponse(clientId, TRUE, Null, Null,
                                                  Null))
              /\ admitted' = [c \in DOMAIN admitted \cup {clientId} |->
                                IF c \in DOMAIN admitted
                                THEN IF c = clientId
                                     THEN Append(admitted[c], now)
                                     ELSE admitted[c]
                                ELSE <<now>>]
      /\ UNCHANGED <<conversationStates, providerSchedules, calls, lastCall,
                     now, pending, verifyVars, cacheVars>>

\* a millisecond passes
TickRate ==
  /\ now < MaxRateClock
  /\ now' = now + 1
  /\ UNCHANGED <<conversationStates, providerSchedules, calls, lastCall,
                 pending, serviceVars>>

NextRate ==
  \/ \E clientId \in ClientAddresses : rateLimit(clientId)
  \/ TickRate

InitRate == InitOneCall /\ providerSchedules = DocumentedSchedules

SpecRate == InitRate /\ [][NextRate]_vars

(***************************************************************************)
(* The side branches.  No handler stores the steps rescheduling,           *)
(* cancellation or error; a record gets one of them when a caller of the   *)
(* store merges it in, and processMessage then dispatches on it.           *)
(***************************************************************************)
\* history entries in the store when side steps are merged in
MaxSideHistory == 4

\* the side steps a caller merges into a record
SideUpdates ==
  { [step |-> "rescheduling"], [step |-> "cancellation"], [step |-> "error"] }

NextSide ==
  \/ \E callId \in calls : initializeConversation(callId)
  \/ \E callId \in calls, updates \in SideUpdates :
       updateConversationStateCall(callId, updates)
  \/ \E callId \in calls, userMessage \in Utterances, answer \in BOOLEAN :
       /\ TotalHistory(conversationStates) + 2 <= MaxSideHistory
       /\ processMessage(callId, userMessage, answer)

SpecSide == InitOneCall /\ [][NextSide]_vars

(***************************************************************************)
(* Confirmation under interleaving.  The caller books turn by turn up to   *)
(* the confirmation step; invocations of processMessage for the call then  *)
(* interleave at the await of createAppointment.                           *)
(***************************************************************************)
\* history entries in the store when confirmations interleave
MaxConfirmHistory == 18

\* what the caller says from the greeting up to the confirmation step
BookingMessages ==
  { "I want to schedule an appointment",
    "My phone is 904-123-4567 and DOB is 03/15/1985",
    "I need a follow-up with Dr. Soto",
    "On 2026-11-02 at 10:30",
    "Yes, I have Aetna" }

\* what the caller says at the confirmation step
ConfirmationMessages ==
  { "Yes, I have Aetna", "No, that is not correct", "Hello, how are you?" }

BeforeConfirmation(callId) ==
  /\ callId \in DOMAIN conversationStates
  /\ StepIndex(conversationStates[callId].step) < StepIndex("confirmation")

NextConfirm ==
  \/ \E callId \in calls :
       /\ callId \notin DOMAIN conversationStates
       /\ initializeConversation(callId)
  \/ \E callId \in calls, userMessage \in BookingMessages :
       /\ BeforeConfirmation(callId)
       /\ processMessage(callId, userMessage, TRUE)
  \/ \E callId \in calls, userMessage \in ConfirmationMessages :
       /\ callId \in DOMAIN conversationStates
       /\ ~BeforeConfirmation(callId)
       /\ processMessageStartWithin(callId, userMessage, MaxConfirmHistory)
  \/ \E i \in Invocations, answer \in BOOLEAN : processMessageResume(i, answer)
  \/ \E i \in Invocations : processMessageReturn(i)

SpecConfirm == InitOneCall /\ [][NextConfirm]_vars

(***************************************************************************)
(* Properties.                                                             *)
(***************************************************************************)
Records == {conversationStates[c] : c \in DOMAIN conversationStates}

\* a processMessage turn for a call that has a record
Turn(callId, userMessage, answer) ==
  /\ callId \in DOMAIN conversationStates
  /\ processMessage(callId, userMessage, answer)

\* the record without its transcript
Fields(state) == [f \in DOMAIN state \ {"conversationHistory"} |-> state[f]]

\* C1: initializeConversation(c) followed by getConversationState(c) yields
\* a record with callId = c, step = greeting, clientVerified = false and an
\* empty conversationHistory.
C1_InitializeThenGet ==
  lastCall.op = "initializeConversation" =>
    /\ getConversationState(lastCall.callId) # Null
    /\ getConversationState(lastCall.callId)[1].callId = lastCall.callId
    /\ getConversationState(lastCall.callId)[1].step = "greeting"
    /\ getConversationState(lastCall.callId)[1].clientVerified = FALSE
    /\ getConversationState(lastCall.callId)[1].conversationHistory = <<>>

\* a call is initialized while the other call is in the middle of a conversation
C1_Witness ==
  /\ lastCall.op = "initializeConversation"
  /\ lastCall.callId = "call_002"
  /\ "call_001" \in DOMAIN conversationStates
  /\ conversationStates["call_001"].step = "appointment_type"

\* C2: at step greeting, an utterance classified schedule, reschedule or
\* cancel moves the stored step to verification and is answered with
\* nextStep = verification and requiresVerification = true; an utterance
\* classified general leaves the stored step at greeting.
C2_GreetingIntent ==
  [][\A callId \in calls, userMessage \in Utterances :
       (/\ Turn(callId, userMessage, TRUE)
        /\ conversationStates[callId].step = "greeting")
       => IF detectIntent(userMessage) \in {"schedule", "reschedule", "cancel"}
          THEN /\ conversationStates'[callId].step = "verification"
               /\ lastCall'.response.nextStep = "verification"
               /\ lastCall'.response.requiresVerification = TRUE
          ELSE conversationStates'[callId].step = "greeting"]_vars

\* a cancel request was answered at greeting
C2_Witness ==
  \E state \in Records :
    /\ state.step = "verification"
    /\ Len(state.conversationHistory) = 2
    /\ detectIntent(state.conversationHistory[1].content) = "cancel"
    /\ lastCall.op = "processMessage"
    /\ lastCall.callId = state.callId
    /\ lastCall.response.requiresVerification

\* the extractor of the step returns null for the utterance
NoMatch(state, userMessage) ==
  \/ /\ state.step = "verification"
     /\ \/ extractVerificationData(userMessage).phoneNumber = Null
        \/ extractVerificationData(userMessage).dateOfBirth = Null
  \/ /\ state.step = "appointment_type"
     /\ detectAppointmentType(userMessage) = Null
  \/ /\ state.step = "provider_selection"
     /\ ~getAvailableProvidersThrows(state.appointmentType)
     /\ detectProviderSelection(userMessage, state.appointmentType) = Null
  \/ /\ state.step = "date_selection"
     /\ detectDateSelection(userMessage) = Null
  \/ /\ state.step = "time_selection"
     /\ detectTimeSelection(userMessage) = Null
  \/ /\ state.step = "insurance_verification"
     /\ extractInsuranceInfo(userMessage).provider = Null
  \/ /\ state.step = "confirmation"
     /\ detectConfirmation(userMessage) = Null

\* C3: a turn whose utterance yields no extracted field for the current
\* step leaves the stored step and every selection and verification field
\* unchanged, and the response's nextStep is that same step.
C3_NoMatchStays ==
  [][\A callId \in calls, userMessage \in Utterances :
       (/\ Turn(callId, userMessage, TRUE)
        /\ NoMatch(conversationStates[callId], userMessage))
       => /\ Fields(conversationStates'[callId]) =
               Fields(conversationStates[callId])
          /\ lastCall'.response.nextStep = conversationStates[callId].step]_vars

\* Dr. Soto was asked for a comprehensive evaluation and the provider
\* question was put again
C3_Witness ==
  \E state \in Records :
    /\ state.step = "provider_selection"
    /\ state.appointmentType = Some("comprehensive_evaluation")
    /\ Len(state.conversationHistory) = 8
    /\ state.conversationHistory[7].content = "I need a follow-up with Dr. Soto"
    /\ lastCall.callId = state.callId
    /\ lastCall.response.nextStep = "provider_selection"

\* the handler of the turn throws
Throws(callId, userMessage, answer) ==
  Dispatch(addToHistory(conversationStates[callId], "user", userMessage),
           userMessage, answer).threw

\* C4: when a step handler throws during processMessage, the caller receives
\* the generic error response and the stored record is exactly what it was
\* before the call.
C4_ThrowLeavesRecord ==
  [][\A callId \in calls, userMessage \in Utterances, answer \in BOOLEAN :
       (/\ Turn(callId, userMessage, answer)
        /\ Throws(callId, userMessage, answer))
       => /\ lastCall'.response = getErrorResponse
          /\ conversationStates'[callId] = conversationStates[callId]]_vars

\* C5: processMessage for a callId that has no record returns the generic
\* error response, creates no record for that callId and leaves every
\* other record unchanged.
C5_UnknownCall ==
  [][\A callId \in calls, userMessage \in Utterances :
       (/\ callId \notin DOMAIN conversationStates
        /\ processMessage(callId, userMessage, TRUE))
       => /\ lastCall'.response.nextStep = "error"
          /\ lastCall'.response.requiresTransfer = TRUE
          /\ callId \notin DOMAIN conversationStates'
          /\ \A other \in DOMAIN conversationStates :
               /\ other \in DOMAIN conversationStates'
               /\ conversationStates'[other] = conversationStates[other]]_vars

\* a message arrived for a call without a record while the other call was
\* in the middle of a conversation
C5_Witness ==
  /\ lastCall.op = "processMessage"
  /\ lastCall.callId \notin DOMAIN conversationStates
  /\ lastCall.response.nextStep = "error"
  /\ \E state \in Records : state.step = "appointment_type"

\* user and agent entries take turns, the user first
Alternating(history) ==
  /\ Len(history) % 2 = 0
  /\ \A i \in 1..Len(history) :
       history[i].role = IF i % 2 = 1 THEN "user" ELSE "agent"

IsPrefix(s, t) == Len(s) <= Len(t) /\ SubSeq(t, 1, Len(s)) = s

\* C6: after the n turns of a call from greeting to completed the history
\* has exactly 2n entries, alternating user then agent in insertion order
\* (n is the number of user entries: each turn records its utterance once),
\* and no turn changes, reorders or removes an earlier entry.
C6_HistoryRoundTrip ==
  /\ [](\A state \in Records :
          state.step = "completed" =>
            /\ Len(state.conversationHistory) = 2 * UserTurns(state)
            /\ Alternating(state.conversationHistory))
  /\ [][\A callId \in calls, userMessage \in Utterances, answer \in BOOLEAN :
          Turn(callId, userMessage, answer) =>
            IsPrefix(conversationStates[callId].conversationHistory,
                     conversationStates'[callId].conversationHistory)]_vars

\* a conversation was completed in eight turns and one more followed
C6_Witness ==
  \E state \in Records :
    /\ state.step = "completed"
    /\ Len(state.conversationHistory) = 18

\* C7: the step of every stored record is one of the named states.
C7_StepIsValid == \A state \in Records : state.step \in Steps

\* a conversation went through every step up to completed
C7_Witness ==
  \E state \in Records :
    /\ state.step = "completed"
    /\ state.insuranceVerified
    /\ lastCall.response.nextStep = "completed"

\* C8: a record with insuranceVerified = true has clientVerified = true and
\* a provider, a date and a time selected.
C8_InsuranceAfterSelection ==
  \A state \in Records :
    state.insuranceVerified =>
      /\ state.clientVerified
      /\ state.preferredProvider # Null
      /\ state.preferredDate # Null
      /\ state.preferredTime # Null

\* the insurance of a call was verified just now
C8_Witness ==
  \E state \in Records :
    /\ state.insuranceVerified
    /\ state.step = "confirmation"
    /\ lastCall.callId = state.callId
    /\ lastCall.response.nextStep = "confirmation"

\* C9: the preferredProvider of a record, if set, is one of the providers
\* getAvailableProviders returns for the record's appointmentType.
C9_ProviderOfType ==
  \A state \in Records :
    state.preferredProvider # Null =>
      /\ ~getAvailableProvidersThrows(state.appointmentType)
      /\ \E i \in 1..Len(getAvailableProviders(state.appointmentType)) :
           getAvailableProviders(state.appointmentType)[i] =
             state.preferredProvider[1]

\* Dr. Soto was asked for a comprehensive evaluation and was not stored;
\* the provider stored afterwards is one of the list
C9_Witness ==
  \E state \in Records :
    /\ state.preferredProvider # Null
    /\ state.appointmentType = Some("comprehensive_evaluation")
    /\ Len(state.conversationHistory) = 10
    /\ state.conversationHistory[7].content = "I need a follow-up with Dr. Soto"

\* C10: at step verification, when phone and date of birth are extracted
\* and the collaborator answers unverified, the record's step becomes
\* verification_failed, the response carries requiresTransfer = true and
\* clientVerified stays false.
C10_VerificationFailed ==
  [][\A callId \in calls, userMessage \in Utterances :
       (/\ Turn(callId, userMessage, FALSE)
        /\ conversationStates[callId].step = "verification"
        /\ extractVerificationData(userMessage).phoneNumber # Null
        /\ extractVerificationData(userMessage).dateOfBirth # Null)
       => /\ conversationStates'[callId].step = "verification_failed"
          /\ lastCall'.response.requiresTransfer = TRUE
          /\ conversationStates'[callId].clientVerified = FALSE]_vars

\* C11: at step time_selection, when a time is parsed and the availability
\* check succeeds, the record's preferredTime and selectedSlot are both set,
\* selectedSlot agrees with the record's preferredProvider, preferredDate
\* and preferredTime, and the step becomes insurance_verification.
C11_TimeSelected ==
  [][\A callId \in calls, userMessage \in Utterances :
       (/\ Turn(callId, userMessage, TRUE)
        /\ conversationStates[callId].step = "time_selection"
        /\ detectTimeSelection(userMessage) # Null)
       => /\ conversationStates'[callId].preferredTime =
               detectTimeSelection(userMessage)
          /\ conversationStates'[callId].step = "insurance_verification"
          /\ conversationStates'[callId].selectedSlot # Null
          /\ conversationStates'[callId].selectedSlot[1].provider =
               conversationStates'[callId].preferredProvider
          /\ conversationStates'[callId].selectedSlot[1].date =
               conversationStates'[callId].preferredDate
          /\ Some(conversationStates'[callId].selectedSlot[1].time) =
               conversationStates'[callId].preferredTime]_vars

\* the utterances that name an insurer the practice does not accept
UnacceptedInsurer == {"I have unknown insurance"}

\* C12: at step insurance_verification, an utterance that names an insurer
\* which is not in the accepted list is answered with selfPayOption set, and
\* the record's step remains insurance_verification with insuranceVerified
\* still false.
C12_SelfPayOffered ==
  [][\A callId \in calls, userMessage \in UnacceptedInsurer :
       (/\ Turn(callId, userMessage, TRUE)
        /\ conversationStates[callId].step = "insurance_verification")
       => /\ lastCall'.response.selfPayOption = TRUE
          /\ conversationStates'[callId].step = "insurance_verification"
          /\ conversationStates'[callId].insuranceVerified = FALSE]_vars

\* C13: at step confirmation a 'yes' answer asks for the appointment to be
\* created; if creation succeeds the step becomes completed and the
\* response has nextStep = completed and a non-null appointmentId; if it
\* fails the step stays confirmation and the response carries the error.
C13_ConfirmationYes ==
  [][\A callId \in calls, userMessage \in Utterances, success \in BOOLEAN :
       (/\ Turn(callId, userMessage, success)
        /\ conversationStates[callId].step = "confirmation"
        /\ detectConfirmation(userMessage) = Some("yes"))
       => /\ Consults(conversationStates[callId], userMessage)
          /\ IF success
             THEN /\ conversationStates'[callId].step = "completed"
                  /\ lastCall'.response.nextStep = "completed"
                  /\ lastCall'.response.appointmentId # Null
             ELSE /\ conversationStates'[callId].step = "confirmation"
                  /\ lastCall'.response.nextStep = "confirmation"
                  /\ lastCall'.response.error # Null]_vars

\* the appointment of a confirmed conversation could not be created
C13_Witness ==
  \E state \in Records :
    /\ state.step = "confirmation"
    /\ Len(state.conversationHistory) = 16
    /\ detectConfirmation(state.conversationHistory[15].content) = Some("yes")
    /\ lastCall.callId = state.callId
    /\ lastCall.response.error # Null

\* C14: at step confirmation a 'no' answer moves the record to step
\* modification, so that the next utterance is not handled by the
\* confirmation handler, and creates no appointment.
C14_ConfirmationNo ==
  [][\A callId \in calls, userMessage \in Utterances :
       (/\ Turn(callId, userMessage, TRUE)
        /\ conversationStates[callId].step = "confirmation"
        /\ detectConfirmation(userMessage) = Some("no"))
       => /\ conversationStates'[callId].step = "modification"
          /\ lastCall'.response.nextStep = "modification"
          /\ lastCall'.response.appointmentId = Null
          /\ ~Consults(conversationStates[callId], userMessage)]_vars

\* C18: initializeConversation for a callId that already has a record fails
\* with a duplicate-call error and leaves the existing record (its step,
\* selections and history) unchanged.
C18_DuplicateCall ==
  [][\A callId \in calls :
       (/\ callId \in DOMAIN conversationStates
        /\ initializeConversation(callId))
       => /\ conversationStates'[callId] = conversationStates[callId]
          /\ lastCall'.response.error # Null]_vars

\* the identifiers of a provider list
IdsOf(providers) == {providers[i].id : i \in 1..Len(providers)}

\* C20: getAvailableProviders(follow_up) contains dr_soto after the general
\* providers, getAvailableProviders of any other appointment type does not
\* contain it, and at step appointment_type an utterance selecting follow-up
\* stores appointmentType = follow_up, moves to provider_selection and
\* offers Dr. Soto among the options.
C20_FollowUpProvider ==
  [][/\ ~getAvailableProvidersThrows(Some("follow_up"))
     /\ LET providers == getAvailableProviders(Some("follow_up"))
        IN /\ Len(providers) = 3
           /\ providers[3].id = "dr_soto"
           /\ {providers[1].id, providers[2].id} =
                {"charles_maddix", "ava_suleiman"}
     /\ \A type \in {"comprehensive_evaluation", "ketamine_consultation"} :
          /\ ~getAvailableProvidersThrows(Some(type))
          /\ "dr_soto" \notin IdsOf(getAvailableProviders(Some(type)))
     /\ \A callId \in calls, userMessage \in Utterances :
          (/\ Turn(callId, userMessage, TRUE)
           /\ conversationStates[callId].step = "appointment_type"
           /\ detectAppointmentType(userMessage) = Some("follow_up"))
          => /\ conversationStates'[callId].appointmentType = Some("follow_up")
             /\ conversationStates'[callId].step = "provider_selection"
             /\ lastCall'.response.nextStep = "provider_selection"
             /\ \E i \in 1..Len(lastCall'.response.options) :
                  lastCall'.response.options[i] = "Dr. Soto"]_vars

\* C15: at most one processMessage invocation per callId is in flight at
\* any time: no invocation reads the record of a call while another
\* invocation for that call is suspended between its read and its last
\* write.
C15_OneInFlight ==
  \A callId \in calls :
    Cardinality({i \in DOMAIN pending : pending[i].callId = callId}) <= 1

\* C16: cleanupConversation for a callId that has no record leaves the
\* store unchanged and raises no error, and after cleanupConversation(c)
\* the store holds no record for c.
C16_CleanupIdempotent ==
  [][\A callId \in calls :
       cleanupConversation(callId)
       => /\ callId \notin DOMAIN conversationStates
               => conversationStates' = conversationStates
          /\ callId \notin DOMAIN conversationStates'
          /\ lastCall'.response.error = Null]_vars

\* a call without a record was cleaned up while the other call has a
\* conversation under way
C16_Witness ==
  /\ lastCall.op = "cleanupConversation"
  /\ lastCall.callId = "call_002"
  /\ DOMAIN conversationStates = {"call_001"}
  /\ Len(conversationStates["call_001"].conversationHistory) = MaxSharedHistory

\* C17: updateConversationState(callId, updates) on an existing record sets
\* exactly the fields named in updates, refreshes lastActivity and leaves
\* every other field unchanged; on an unknown callId it creates no record
\* and changes nothing in the store.
C17_UpdateMerges ==
  [][\A callId \in calls, updates \in Updates :
       updateConversationStateCall(callId, updates)
       => IF callId \in DOMAIN conversationStates
          THEN /\ DOMAIN conversationStates' = DOMAIN conversationStates
               /\ \A f \in DOMAIN updates :
                    conversationStates'[callId][f] = updates[f]
               /\ conversationStates'[callId].lastActivity = now
               /\ \A f \in DOMAIN conversationStates[callId] \
                             (DOMAIN updates \cup {"lastActivity"}) :
                    conversationStates'[callId][f] =
                      conversationStates[callId][f]
          ELSE conversationStates' = conversationStates]_vars

\* a record created earlier was updated just now
C17_Witness ==
  /\ lastCall.op = "updateConversationState"
  /\ \E state \in Records :
       /\ state.callId = lastCall.callId
       /\ state.startTime < now
       /\ state.lastActivity = now
       /\ state.clientVerified
       /\ state.step = "appointment_type"
       /\ state.conversationHistory # <<>>

\* C19: every mutation of a conversation record, a field merge or an
\* append to conversationHistory, sets the record's lastActivity to the
\* time of that mutation.
C19_LastActivityFresh ==
  [][\A callId \in DOMAIN conversationStates \cap DOMAIN conversationStates' :
       conversationStates'[callId] # conversationStates[callId]
       => conversationStates'[callId].lastActivity = now']_vars

\* minutes after midnight of a slot or of a schedule bound
MinuteOfDay(hm) == 60 * hm[1] + hm[2]

\* the days getAvailableDates looks at
Horizon == {Today + i : i \in 1..30}

\* C21: for every provider schedule entry {start, end}, also one that does
\* not start or end on the hour, every slot getAvailableTimes returns lies
\* in [start, end).
C21_SlotsWithinSchedule ==
  \A id \in ProviderIds, date \in Horizon :
    (/\ providerSchedules[id] # Null
     /\ DayName(date) \in DOMAIN providerSchedules[id][1].schedule)
    => LET provider == providerSchedules[id][1]
           schedule == provider.schedule[DayName(date)]
           times == getAvailableTimes(provider, date)
       IN \A k \in 1..Len(times) :
            /\ MinuteOfDay(times[k]) >= MinuteOfDay(schedule.start)
            /\ MinuteOfDay(times[k]) < MinuteOfDay(schedule.end)

\* the quarter-hour slots of a day whose text is the given time
SlotsNamed(text) ==
  {slot \in (0..23) \X {0, 15, 30, 45} : timeString(slot) = text}

\* C22: the time stored as preferredTime is one of the slots
\* getAvailableTimes returns for the chosen provider and date, and its hour
\* is not in [lunchBreakStart, lunchBreakEnd).
C22_TimeIsOfferedSlot ==
  \A state \in Records :
    (state.preferredTime # Null /\ state.preferredProvider # Null
       /\ state.preferredDate # Null)
    => LET times == getAvailableTimes(state.preferredProvider[1],
                                      state.preferredDate[1])
       IN /\ \E k \in 1..Len(times) :
               timeString(times[k]) = state.preferredTime[1]
          /\ \A slot \in SlotsNamed(state.preferredTime[1]) :
               ~(slot[1] >= lunchBreakStart[1] /\ slot[1] < lunchBreakEnd[1])

\* C30: at step time_selection, when a time is parsed and the availability
\* check reports the slot unavailable, the step stays time_selection,
\* preferredTime keeps its value, and the response offers the available
\* times again with nextStep = time_selection.
C30_UnavailableStays ==
  [][\A callId \in calls, userMessage \in Utterances :
       (/\ Turn(callId, userMessage, FALSE)
        /\ conversationStates[callId].step = "time_selection"
        /\ detectTimeSelection(userMessage) # Null)
       => /\ conversationStates'[callId].step = "time_selection"
          /\ conversationStates'[callId].preferredTime =
               conversationStates[callId].preferredTime
          /\ lastCall'.response.nextStep = "time_selection"
          /\ lastCall'.response.availableTimes =
               TimesOf(conversationStates[callId])]_vars

\* a parsed time was refused and the times were offered again
C30_Witness ==
  \E state \in Records :
    /\ state.step = "time_selection"
    /\ state.preferredTime = Null
    /\ Len(state.conversationHistory) = 12
    /\ detectTimeSelection(state.conversationHistory[11].content) # Null
    /\ lastCall.callId = state.callId
    /\ lastCall.response.nextStep = "time_selection"
    /\ lastCall.response.availableTimes # <<>>

\* the utterance contains the keyword as a word of its own
HasWord(message, keyword) == keyword \in LowerWords[message]

IntentKeywords ==
  {"schedule", "book", "appointment", "reschedule", "change", "cancel"}

\* C23: detectIntent returns reschedule for every utterance that contains
\* the word 'reschedule' and cancel for every utterance that contains the
\* word 'cancel', also when the utterance contains 'appointment', and
\* general when no keyword occurs.
C23_IntentOfKeyword ==
  [](\A message \in Phrases :
       /\ HasWord(message, "reschedule")
            => detectIntent(message) = "reschedule"
       /\ (HasWord(message, "cancel") /\ ~HasWord(message, "reschedule"))
            => detectIntent(message) = "cancel"
       /\ (\A keyword \in IntentKeywords : ~includes(message, keyword))
            => detectIntent(message) = "general")

\* C24: detectConfirmation returns 'no' for an utterance that contains the
\* word 'no' even when it also contains the word 'correct', and at step
\* confirmation such an utterance does not lead to the creation of an
\* appointment.
C24_NoBeatsCorrect ==
  /\ [](\A message \in Phrases :
          (HasWord(message, "no") /\ HasWord(message, "correct"))
          => detectConfirmation(message) = Some("no"))
  /\ [][\A callId \in calls, userMessage \in Utterances,
           success \in BOOLEAN :
          (/\ Turn(callId, userMessage, success)
           /\ conversationStates[callId].step = "confirmation"
           /\ HasWord(userMessage, "no")
           /\ HasWord(userMessage, "correct"))
          => /\ ~Consults(conversationStates[callId], userMessage)
             /\ lastCall'.response.appointmentId = Null
             /\ conversationStates'[callId].step # "completed"]_vars

ConfirmationKeywords ==
  {"yes", "correct", "right", "no", "incorrect", "wrong"}

\* C25: detectConfirmation returns null for an utterance that contains none
\* of the keywords yes, correct, right, no, incorrect, wrong as a word of
\* its own, and at step confirmation such an utterance is answered with the
\* confirmation question again: no appointment is created and the response
\* is not the 'modification' one.
C25_UnclearIsNull ==
  /\ [](\A message \in Phrases :
          (\A keyword \in ConfirmationKeywords : ~HasWord(message, keyword))
          => detectConfirmation(message) = Null)
  /\ [][\A callId \in calls, userMessage \in Utterances,
           success \in BOOLEAN :
          (/\ Turn(callId, userMessage, success)
           /\ conversationStates[callId].step = "confirmation"
           /\ \A keyword \in ConfirmationKeywords :
                ~HasWord(userMessage, keyword))
          => /\ lastCall'.response.nextStep = "confirmation"
             /\ lastCall'.response.appointmentId = Null
             /\ conversationStates'[callId].step = "confirmation"]_vars

\* a verifyClient call with some salts
Verify(phoneNumber, dateOfBirth) ==
  \E salts \in SaltsDrawn(phoneNumber, dateOfBirth) :
    verifyClient(phoneNumber, dateOfBirth, salts)

\* the client of the mock database with this phone number and date of birth
StoredClient(phoneNumber, dateOfBirth) ==
  { i \in DOMAIN MockClients :
      /\ MockClients[i].phone = normalizePhoneNumber(phoneNumber)
      /\ MockClients[i].dob = normalizeDateOfBirth(dateOfBirth) }

\* C26: after three failed verifyClient calls for a phone number, whatever
\* the reason each one failed, the next verifyClient call for that number
\* returns verified = false with the 'Too many failed attempts' error.
C26_LockoutAfterThreeFailures ==
  [][\A phoneNumber \in PhoneNumbers, dateOfBirth \in DatesOfBirth :
       (Verify(phoneNumber, dateOfBirth) /\ FailedCalls(phoneNumber) >= 3)
         => /\ lastVerify'[1].verified = FALSE
            /\ lastVerify'[1].error =
                 Some("Too many failed attempts. Please try again later.")]_vars

\* C27: verifyClient with a well-formed phone number and date of birth that
\* equal, after normalisation, those of a stored client, the number not
\* being locked out, returns verified = true with that client's identity and
\* clears the failed-attempt record of the number.
C27_StoredClientVerified ==
  [][\A phoneNumber \in PhoneNumbers, dateOfBirth \in DatesOfBirth :
       ( /\ Verify(phoneNumber, dateOfBirth)
         /\ isValidPhoneNumber(phoneNumber)
         /\ isValidDateOfBirth(dateOfBirth)
         /\ StoredClient(phoneNumber, dateOfBirth) # {}
         /\ ~isLockedOut(verificationAttempts, phoneNumber) )
         => /\ lastVerify'[1].verified
            /\ \E i \in StoredClient(phoneNumber, dateOfBirth) :
                 /\ lastVerify'[1].clientId = Some(MockClients[i].id)
                 /\ lastVerify'[1].clientName = Some(MockClients[i].name)
            /\ normalizePhoneNumber(phoneNumber)
                 \notin DOMAIN verificationAttempts']_vars

\* the accepted operation n is in the queue
Queued(n) == \E i \in DOMAIN writeBehindQueue : writeBehindQueue[i].n = n

\* the accepted operation n has been applied to the backend
Applied(n) == \E i \in DOMAIN intakeq : intakeq[i].n = n

\* C28: every operation the write-behind interface accepted is eventually
\* applied to the IntakeQ backend, also when syncs fail transiently, and it
\* leaves the queue only once it is applied.
C28_EventuallySynced ==
  /\ \A n \in 1..MaxAccepted : (accepted >= n) ~> Applied(n)
  /\ [][\A n \in 1..MaxAccepted :
          (Queued(n) /\ ~Queued(n)') => Applied(n)']_vars

\* the requests of clientId passed on to next()
AdmittedOf(clientId) ==
  IF clientId \in DOMAIN admitted THEN admitted[clientId] ELSE <<>>

\* the number of requests of clientId passed on in the windowMs milliseconds
\* that end with millisecond t
AdmittedInWindow(clientId, t) ==
  Cardinality({ i \in DOMAIN AdmittedOf(clientId) :
                  /\ AdmittedOf(clientId)[i] > t - windowMs
                  /\ AdmittedOf(clientId)[i] <= t })

\* C29: for each client address the requests passed on within any window of
\* windowMs milliseconds never exceed maxRequests; a request of a client that
\* has maxRequests requests passed on in the last windowMs is answered with
\* status 429 and is not recorded; and a request of a client with fewer than
\* maxRequests passed on in the last windowMs is passed on, however many
\* older ones there are.
C29_RateLimited ==
  /\ [](\A clientId \in ClientAddresses, t \in 0..MaxRateClock :
          AdmittedInWindow(clientId, t) <= maxRequests)
  /\ [][\A clientId \in ClientAddresses :
          rateLimit(clientId) =>
            IF AdmittedInWindow(clientId, now) >= maxRequests
            THEN /\ lastRequest'[1].status = Some(429)
                 /\ ~lastRequest'[1].next
                 /\ admitted' = admitted
                 /\ Len(requests'[clientId]) = AdmittedInWindow(clientId, now)
            ELSE /\ lastRequest'[1].next
                 /\ lastRequest'[1].status = Null
                 /\ AdmittedOf(clientId)' = Append(AdmittedOf(clientId), now)]_vars

\* a client that had requests passed on, waited until they stopped counting,
\* had maxRequests more passed on and is now answered with 429
C29_Witness ==
  \E clientId \in ClientAddresses :
    /\ lastRequest = Some(RateResponse(clientId, FALSE, Some(429),
                            Some("Rate limit exceeded"),
                            Some(CeilSeconds(windowMs))))
    /\ Len(AdmittedOf(clientId)) > maxRequests
    /\ AdmittedInWindow(clientId, now) = maxRequests

\* C31: a message for a record whose step is rescheduling, cancellation or
\* error is answered by the general inquiry handler: the response is the
\* schedule/reschedule/cancel menu, not the error response, and the user
\* entry and an agent entry are appended to the history.
C31_SideStepsGetMenu ==
  [][\A callId \in calls, userMessage \in Utterances, answer \in BOOLEAN :
       (/\ Turn(callId, userMessage, answer)
        /\ conversationStates[callId].step
             \in {"rescheduling", "cancellation", "error"})
       => /\ lastCall'.response =
               handleGeneralInquiry(conversationStates[callId]).response
          /\ lastCall'.response # getErrorResponse
          /\ Len(conversationStates'[callId].conversationHistory) =
               Len(conversationStates[callId].conversationHistory) + 2
          /\ conversationStates'[callId].conversationHistory[
               Len(conversationStates'[callId].conversationHistory)].role
               = "agent"]_vars

\* the failed-attempt record of the phone number
AttemptsOf(phoneNumber) == verificationAttempts[normalizePhoneNumber(phoneNumber)]

\* the phone number has maxAttempts recorded failed verifications
Exhausted(phoneNumber) ==
  /\ normalizePhoneNumber(phoneNumber) \in DOMAIN verificationAttempts
  /\ AttemptsOf(phoneNumber).attempts >= maxAttempts

\* C32: once a phone number has maxAttempts recorded failed verifications,
\* a verifyClient call with well-formed inputs for it made before
\* lockoutUntil returns the lockout error and leaves the attempt count and
\* lockoutUntil as they are; such a call made after lockoutUntil is verified
\* as for a number without a record; and the remaining attempts always lie
\* in 0..maxAttempts.
C32_LockoutWindow ==
  /\ [](/\ \A phoneNumber \in PhoneNumbers :
             getRemainingAttempts(verificationAttempts, phoneNumber)
               \in 0..maxAttempts
        /\ (lastVerify # Null /\ lastVerify[1].attemptsRemaining # Null)
             => lastVerify[1].attemptsRemaining[1] \in 0..maxAttempts)
  /\ [][\A phoneNumber \in PhoneNumbers, dateOfBirth \in DatesOfBirth :
          ( /\ isValidPhoneNumber(phoneNumber)
            /\ isValidDateOfBirth(dateOfBirth)
            /\ Exhausted(phoneNumber)
            /\ Verify(phoneNumber, dateOfBirth) )
          => /\ AttemptsOf(phoneNumber).lockoutUntil # Null
             /\ now < AttemptsOf(phoneNumber).lockoutUntil[1]
                  => /\ lastVerify' =
                          Some(VerifyResult(FALSE,
                            Some("Too many failed attempts. Please try again later."),
                            Null, Null, Null,
                            AttemptsOf(phoneNumber).lockoutUntil))
                     /\ verificationAttempts' = verificationAttempts
             /\ now > AttemptsOf(phoneNumber).lockoutUntil[1]
                  => \/ /\ lastVerify'[1].verified
                        /\ normalizePhoneNumber(phoneNumber)
                             \notin DOMAIN verificationAttempts'
                     \/ /\ lastVerify' =
                             Some(VerifyResult(FALSE,
                               Some("Phone number and date of birth do not match our records"),
                               Null, Null, Some(maxAttempts - 1), Null))
                        /\ AttemptsOf(phoneNumber)' =
                             [attempts |-> 1, lockoutUntil |-> Null]]_vars

\* a call for a locked-out number made before lockoutUntil got the lockout
\* error
C32_Witness ==
  \E phoneNumber \in PhoneNumbers :
    /\ Exhausted(phoneNumber)
    /\ now > 0
    /\ now < AttemptsOf(phoneNumber).lockoutUntil[1]
    /\ lastVerify # Null
    /\ lastVerify[1].error =
         Some("Too many failed attempts. Please try again later.")
    /\ lastVerify[1].lockoutExpires = AttemptsOf(phoneNumber).lockoutUntil

\* the accepted operation n is in the batch the processor holds
InBatch(n) == \E i \in DOMAIN batch : batch[i].n = n

\* the syncs started so far for the accepted operation n
AttemptsFor(n) == IF n \in DOMAIN attempted THEN attempted[n] ELSE 0

\* the entries the service holds, in the queue or in the batch
HeldEntries ==
  {writeBehindQueue[i] : i \in DOMAIN writeBehindQueue}
    \cup {batch[i] : i \in DOMAIN batch}

\* C33: an operation whose sync fails is put back on the queue at most
\* maxRetries times, so it is attempted at most maxRetries + 1 times and then
\* dropped; no queue entry has retries greater than maxRetries; and once no
\* new operations are enqueued the queue becomes empty and stays empty.
C33_RetriesBounded ==
  /\ [](/\ \A entry \in HeldEntries :
             /\ entry.retries <= maxRetries
             /\ entry.retries = AttemptsFor(entry.n)
        /\ \A n \in 1..MaxAccepted : AttemptsFor(n) <= maxRetries + 1)
  /\ [][\A n \in 1..MaxAccepted :
          (AttemptsFor(n)' = maxRetries + 1 /\ AttemptsFor(n) = maxRetries
             /\ ~Applied(n)')
          => ~Queued(n)' /\ ~InBatch(n)']_vars
  /\ <>[](writeBehindQueue = <<>>)

\* an operation was attempted maxRetries + 1 times and dropped
C33_Witness ==
  \E n \in 1..MaxAccepted :
    /\ AttemptsFor(n) = maxRetries + 1
    /\ ~Applied(n)
    /\ ~Queued(n)
    /\ ~InBatch(n)
    /\ syncFailures >= maxRetries + 1

\* C34: after every processMessage turn on a call that has a record, the
\* nextStep of the returned response is the step stored in the record.
C34_NextStepIsStoredStep ==
  [][\A callId \in calls, userMessage \in Utterances, answer \in BOOLEAN :
       Turn(callId, userMessage, answer)
         => lastCall'.response.nextStep = conversationStates'[callId].step]_vars

\* the chain of steps of a scheduling conversation
Chain ==
  << "greeting", "verification", "appointment_type", "provider_selection",
     "date_selection", "time_selection", "insurance_verification",
     "confirmation", "completed" >>

\* the position of a step in the chain, 0 for a step outside it
ChainIndex(step) ==
  IF \E i \in DOMAIN Chain : Chain[i] = step
  THEN CHOOSE i \in DOMAIN Chain : Chain[i] = step
  ELSE 0

Selections ==
  {"appointmentType", "preferredProvider", "preferredDate", "preferredTime"}

\* the record a processMessage turn leaves, before the agent entry is added
AfterTurn(state, userMessage, answer) ==
  Dispatch(addToHistory(state, "user", userMessage), userMessage, answer).state

\* C35: a processMessage turn on a stored record leaves the step where it is
\* or moves it to the next step of the chain: never backward, never over a
\* step, and never away from completed; and a selection that is set keeps
\* its value.
C35_StepMovesForward ==
  \A before \in Records, userMessage \in Utterances, answer \in BOOLEAN :
    LET after == AfterTurn(before, userMessage, answer)
    IN  /\ ChainIndex(before.step) > 0
        /\ ChainIndex(after.step) \in
             {ChainIndex(before.step), ChainIndex(before.step) + 1}
        /\ before.step = "completed" => after.step = "completed"
        /\ \A f \in Selections : before[f] # Null => after[f] = before[f]

\* a conversation went through the chain with all four selections made, and
\* a further message left it completed
C35_Witness ==
  \E state \in Records :
    /\ state.step = "completed"
    /\ \A f \in Selections : state[f] # Null
    /\ lastCall.op = "processMessage"
    /\ lastCall.callId = state.callId
    /\ lastCall.response.nextStep = "greeting"

\* C36: a record whose step is appointment_type or a later step of the chain
\* has clientVerified = true and a clientInfo.
C36_VerifiedBeforeScheduling ==
  \A state \in Records :
    ChainIndex(state.step) >= ChainIndex("appointment_type")
      => state.clientVerified /\ state.clientInfo # Null

\* a caller was just verified and asked for the appointment type
C36_Witness ==
  \E state \in Records :
    /\ state.step = "appointment_type"
    /\ state.clientVerified
    /\ state.clientInfo # Null
    /\ lastCall.op = "processMessage"
    /\ lastCall.callId = state.callId
    /\ lastCall.response.clientInfo = state.clientInfo

\* C37: under any interleaving of processMessage invocations for a call,
\* createAppointment succeeds at most once per conversation record: no
\* invocation suspended at createAppointment is answered with a created
\* appointment when the record of its call is already completed by an
\* earlier created appointment.
C37_CreatedAtMostOnce ==
  [][\A i \in Invocations :
       ( /\ i \in DOMAIN pending
         /\ pending[i].at = "collaborator"
         /\ pending[i].step = "confirmation"
         /\ pending[i].callId \in DOMAIN conversationStates
         /\ conversationStates[pending[i].callId].step = "completed" )
         => ~processMessageResume(i, TRUE)]_vars

\* C38: the preferredDate stored in a record is one of the dates
\* getAvailableDates returns for the record's preferredProvider: one of
\* the 30 days starting tomorrow on which the provider's weekly schedule
\* defines hours.
C38_PreferredDateAvailable ==
  \A state \in Records :
    (state.preferredDate # Null /\ state.preferredProvider # Null)
      => \E i \in DOMAIN getAvailableDates(state.preferredProvider[1]) :
           getAvailableDates(state.preferredProvider[1])[i] =
             state.preferredDate[1]

\* C39: write-behind operations on the same key reach the backend in the
\* order they were enqueued, also when a sync fails and is retried: of two
\* operations on one key the backend has applied, the one accepted first
\* was applied first.
C39_SameKeyInOrder ==
  \A i, j \in DOMAIN intakeq :
    (i < j /\ intakeq[i].key = intakeq[j].key)
      => intakeq[i].n < intakeq[j].n

====
